---- MODULE Spec2Model ----
(***************************************************************************)
(* A model of the Jack compiler: the Tokenizer (tokenizer.py), the         *)
(* SymbolTable (symbol_table.py), the VMWriter (vm_writer.py) and the      *)
(* recursive-descent CompilationEngine (compilation_engine.py).            *)
(*                                                                         *)
(* Source text, lexemes and VM fields are strings; a character of a string *)
(* s is SubSeq(s, i, i).  A Python None is the empty tuple <<>> and a      *)
(* value v that may be None is <<v>>.  The XML parse tree the engine       *)
(* builds beside the VM code (output_str, Tokenizer.__xml) is diagnostic   *)
(* only and is left out; every other field is modelled.                    *)
(***************************************************************************)
EXTENDS Integers, Sequences, FiniteSets, TLC

VARIABLES
    tokenizer,      \* the Tokenizer object (record of its fields)
    symbol_table,   \* the SymbolTable object: class table and subroutine table
    output,         \* VMWriter.__output, one tuple of fields per line
    eng,            \* the CompilationEngine's own fields
    stack,          \* the Python call stack of _compile_* frames, top last
    status          \* "start", "running", "done", "error"; "lex..." for a bare Tokenizer,
                    \* "table..." for a bare SymbolTable

vars == <<tokenizer, symbol_table, output, eng, stack, status>>

(***************************************************************************)
(* Characters and small string helpers                                     *)
(***************************************************************************)
Ch(s, i) == SubSeq(s, i, i)

\* Python's str.isdigit on the ASCII digits
Digits == <<"0", "1", "2", "3", "4", "5", "6", "7", "8", "9">>

isdigit(c) == \E d \in 1..10 : Digits[d] = c

\* the characters re's \s and str.split() treat as whitespace
Whitespace == {" ", "\t", "\n", "\r", "\f"}

\* str(n) for a non-negative int
RECURSIVE str(_)
str(n) == IF n < 10 THEN Digits[n + 1] ELSE str(n \div 10) \o Digits[(n % 10) + 1]

\* the printable ASCII characters with codes 32..95 and 97..126, in code order
\* (code 96, the backquote, cannot be written in a string of this language)
AsciiTo95 == " !\"#$%&'()*+,-./0123456789:;<=>?@ABCDEFGHIJKLMNOPQRSTUVWXYZ[\\]^_"

AsciiFrom97 == "abcdefghijklmnopqrstuvwxyz{|}~"

\* Python's ord on a printable ASCII character
ord(c) ==
    IF \E i \in 1..Len(AsciiTo95) : Ch(AsciiTo95, i) = c
    THEN 31 + (CHOOSE i \in 1..Len(AsciiTo95) : Ch(AsciiTo95, i) = c)
    ELSE 96 + (CHOOSE i \in 1..Len(AsciiFrom97) : Ch(AsciiFrom97, i) = c)

(***************************************************************************)
(* grammar_utility.py                                                      *)
(***************************************************************************)
KEYWORD_TAG == "keyword"
IDENTIFIER_TAG == "identifier"
SYMBOL_TAG == "symbol"
STRING_CONSTANT_TAG == "stringConstant"
INTEGER_CONSTANT_TAG == "integerConstant"

SUBROUTINE_DEC_SET == {"constructor", "function", "method"}
SUBROUTINE_OR_CLASS_END == {"constructor", "function", "method", "}"}
STATEMENT_SET == {"let", "if", "while", "do", "return"}
STATEMENT_OR_ROUTINE_END == {"let", "if", "while", "do", "return", "}"}
TERM_OPS == {"+", "-", "*", "/", "&", "|", "<", ">", "=", "&lt;", "&gt;", "&amp;"}
KEYWORD_CONSTANT == {"true", "false", "null", "this"}
UNARY_OP == {"-", "~"}

SYMBOLS == {"{", "}", "(", ")", "[", "]", ".", ",", ";",
            "+", "-", "*", "/", "&", "|", "<", ">", "=", "~"}

KEYWORDS == {"class", "constructor", "function", "method", "field", "static",
             "var", "int", "char", "boolean", "void", "true", "false", "null",
             "this", "let", "do", "if", "else", "while", "return"}

create_tag(tag_type, token) ==
    "<" \o tag_type \o "> " \o token \o " </" \o tag_type \o ">"

(***************************************************************************)
(* tokenizer.py: the regular expressions                                   *)
(***************************************************************************)
\* REGEX_PATTERN's character class [*+-/&|<>~.,();{}:\"\[\]]: in it "+-/" is
\* the range from "+" to "/", that is + , - . /
REGEX_PATTERN_CLASS == {"*", "+", ",", "-", ".", "/", "&", "|", "<", ">", "~",
                        "(", ")", ";", "{", "}", ":", "\"", "[", "]"}

STRING_LITERAL_SUB == "_STRING_LITERAL_"

\* the least index j of lo..hi with P[j], or hi + 1
First(P, lo, hi) ==
    CHOOSE j \in lo..(hi + 1) : /\ j = hi + 1 \/ P[j]
                                /\ \A k \in lo..(j - 1) : ~P[k]

\* the greatest index j of lo..hi with P[j], or lo - 1
Last(P, lo, hi) ==
    LET d == CHOOSE e \in 0..(hi - lo + 1) : /\ e = hi - lo + 1 \/ P[hi - e]
                                             /\ \A k \in (hi - e + 1)..hi : ~P[k]
    IN  hi - d

\* parts[lo] \o ... \o parts[hi], or empty where lo > hi
RECURSIVE Concat(_, _, _, _)
Concat(parts, lo, hi, empty) ==
    IF lo > hi THEN empty
    ELSE IF lo = hi THEN parts[lo]
    ELSE Concat(parts, lo, (lo + hi) \div 2, empty)
            \o Concat(parts, (lo + hi) \div 2 + 1, hi, empty)

\* the least index j >= i with s[j] = c, or 0
IndexFrom(s, c, i) ==
    LET j == First([k \in 1..Len(s) |-> Ch(s, k) = c], i, Len(s))
    IN  IF j > Len(s) THEN 0 ELSE j

\* REGEX_PATTERN_STRING_LITERAL ["][^"]+["] matched at index i: the index of
\* the closing quote, or 0 when there is no match at i
StringLiteralEnd(s, i) ==
    IF Ch(s, i) = "\"" /\ i + 1 <= Len(s) /\ Ch(s, i + 1) # "\""
    THEN IndexFrom(s, "\"", i + 2)
    ELSE 0

\* the leftmost match of REGEX_PATTERN_STRING_LITERAL at or after i: <<start, end>> or <<>>
NextStringLiteral(s, i) ==
    LET j == First([k \in 1..Len(s) |-> StringLiteralEnd(s, k) > 0], i, Len(s))
    IN  IF j > Len(s) THEN <<>> ELSE <<j, StringLiteralEnd(s, j)>>

\* re.findall(REGEX_PATTERN_STRING_LITERAL, s), from index i
RECURSIVE findall_string_literal(_, _)
findall_string_literal(s, i) ==
    LET m == NextStringLiteral(s, i)
    IN  IF m = <<>> THEN <<>>
        ELSE <<SubSeq(s, m[1], m[2])>> \o findall_string_literal(s, m[2] + 1)

\* re.sub(REGEX_PATTERN_STRING_LITERAL, " " + STRING_LITERAL_SUB + " ", s), from index i
RECURSIVE sub_string_literal(_, _)
sub_string_literal(s, i) ==
    LET m == NextStringLiteral(s, i)
    IN  IF m = <<>> THEN SubSeq(s, i, Len(s))
        ELSE SubSeq(s, i, m[1] - 1) \o " " \o STRING_LITERAL_SUB \o " "
                \o sub_string_literal(s, m[2] + 1)

\* the least index j >= i whose character is not whitespace, or Len(s) + 1
SkipWhitespace(s, i) ==
    First([k \in 1..Len(s) |-> Ch(s, k) \notin Whitespace], i, Len(s))

\* the least index j >= i whose character is whitespace, or Len(s) + 1
SkipWord(s, i) ==
    First([k \in 1..Len(s) |-> Ch(s, k) \in Whitespace], i, Len(s))

\* what re.sub(REGEX_PATTERN, r' \1 ', s) puts for the k-th character of s.  The
\* matches are taken leftmost first and do not overlap, and each takes all the
\* whitespace on both sides of its class character: a class character becomes
\* itself between two spaces, a whitespace character of a run that touches a
\* class character is part of a match and is dropped, any other character stays
sub_operators_char(s, k) ==
    LET c == Ch(s, k)
        a == Last([j \in 1..Len(s) |-> Ch(s, j) \notin Whitespace], 1, k)
        b == SkipWhitespace(s, k)
    IN  IF c \in REGEX_PATTERN_CLASS THEN " " \o c \o " "
        ELSE IF c \notin Whitespace THEN c
        ELSE IF (a >= 1 /\ Ch(s, a) \in REGEX_PATTERN_CLASS)
                   \/ (b <= Len(s) /\ Ch(s, b) \in REGEX_PATTERN_CLASS) THEN ""
        ELSE c

\* re.sub(REGEX_PATTERN, r' \1 ', s)
sub_operators(s) ==
    Concat([k \in 1..Len(s) |-> sub_operators_char(s, k)], 1, Len(s), "")

\* the word of s that starts at index k: <<word>>, or <<>> where none starts there
split_word(s, k) ==
    IF Ch(s, k) \notin Whitespace /\ (k = 1 \/ Ch(s, k - 1) \in Whitespace)
    THEN <<SubSeq(s, k, SkipWord(s, k) - 1)>>
    ELSE <<>>

\* str.split(): the maximal runs of non-whitespace characters
split(s) ==
    Concat([k \in 1..Len(s) |-> split_word(s, k)], 1, Len(s), <<>>)

\* int(token) does not raise ValueError, for a token with no whitespace and no
\* sign: decimal digits, with single underscores allowed between digits
int_parses(token) ==
    /\ Len(token) > 0
    /\ \A i \in 1..Len(token) :
          \/ isdigit(Ch(token, i))
          \/ /\ Ch(token, i) = "_"
             /\ 1 < i /\ i < Len(token)
             /\ isdigit(Ch(token, i - 1)) /\ isdigit(Ch(token, i + 1))

(***************************************************************************)
(* tokenizer.py: class Tokenizer                                           *)
(***************************************************************************)
\* the fields of a Tokenizer before __init__ has run its steps
NewTokenizer(input_string) ==
    [input_string    |-> input_string,
     string_literals |-> <<>>,
     padded_string   |-> "",
     tokens          |-> <<>>,
     token_type_list |-> <<>>,
     token_pointer   |-> <<>>,
     current_token   |-> <<>>,
     current_type    |-> <<>>,
     current_xml     |-> <<>>]

find_string_literals(tk) ==
    [tk EXCEPT !.string_literals = findall_string_literal(tk.input_string, 1)]

replace_string_literals(tk) ==
    [tk EXCEPT !.padded_string = sub_string_literal(tk.input_string, 1)]

pad_operators(tk) ==
    [tk EXCEPT !.padded_string = sub_operators(tk.padded_string)]

\* line 118 without its replacements: the symbol as the source has it
raw_symbol(token) == token

\* line 118: the token of a symbol is rebound to its XML-escaped text
escape_symbol(token) ==
    IF token = "<" THEN "&lt;"
    ELSE IF token = ">" THEN "&gt;"
    ELSE IF token = "&" THEN "&amp;"
    ELSE token

\* one turn of the loop of _tag_tokens on `token`, with the string literals not
\* yet popped: the tuple appended to token_type_list, the literals left, and
\* whether the turn raised (ValueError of int, IndexError of pop(0))
tag_token(token, literals) ==
    IF token \in KEYWORDS THEN
        [raised |-> FALSE, literals |-> literals,
         entry |-> <<token, KEYWORD_TAG, create_tag(KEYWORD_TAG, token)>>]
    ELSE IF token \in SYMBOLS THEN
        [raised |-> FALSE, literals |-> literals,
         entry |-> <<escape_symbol(token), SYMBOL_TAG,
                     create_tag(SYMBOL_TAG, escape_symbol(token))>>]
    ELSE IF token = STRING_LITERAL_SUB THEN
        IF literals = <<>> THEN
            [raised |-> TRUE, literals |-> literals, entry |-> <<>>]
        ELSE
            [raised |-> FALSE, literals |-> Tail(literals),
             entry |-> <<token, STRING_CONSTANT_TAG,
                         create_tag(STRING_CONSTANT_TAG,
                                    SubSeq(Head(literals), 2, Len(Head(literals)) - 1))>>]
    ELSE IF isdigit(Ch(token, 1)) THEN
        IF int_parses(token) THEN
            [raised |-> FALSE, literals |-> literals,
             entry |-> <<token, INTEGER_CONSTANT_TAG, create_tag(INTEGER_CONSTANT_TAG, token)>>]
        ELSE
            [raised |-> TRUE, literals |-> literals, entry |-> <<>>]
    ELSE
        [raised |-> FALSE, literals |-> literals,
         entry |-> <<token, IDENTIFIER_TAG, create_tag(IDENTIFIER_TAG, token)>>]

\* the string literals not yet popped when the loop of _tag_tokens comes to the
\* i-th token: one is popped for each token before it that is the placeholder
literals_at(tk, i) ==
    LET popped == Cardinality({j \in 1..(i - 1) : tk.tokens[j] = STRING_LITERAL_SUB})
    IN  SubSeq(tk.string_literals, popped + 1, Len(tk.string_literals))

\* _tag_tokens: the loop runs up to the first token whose turn raises
tag_tokens(tk) ==
    LET n    == Len(tk.tokens)
        turn == [i \in 1..n |-> tag_token(tk.tokens[i], literals_at(tk, i))]
        stop == First([i \in 1..n |-> turn[i].raised], 1, n)
    IN  [raised |-> stop <= n,
         tk |-> [tk EXCEPT !.string_literals = literals_at(tk, stop),
                           !.token_type_list = [i \in 1..(stop - 1) |-> turn[i].entry]]]

\* Tokenizer(input_string): the object built, or raised
Tokenizer_init(input_string) ==
    LET t1 == find_string_literals(NewTokenizer(input_string))
        t2 == replace_string_literals(t1)
        t3 == pad_operators(t2)
        t4 == [t3 EXCEPT !.tokens = split(t3.padded_string)]
    IN  tag_tokens(t4)

\* Tokenizer.next()
\* next() without its line 52: the pointer stays past the last token
Tokenizer_next_no_rollback(tk) ==
    LET p == IF tk.token_pointer = <<>> THEN 0 ELSE tk.token_pointer[1] + 1
    IN  IF p >= Len(tk.token_type_list)
        THEN [raised |-> TRUE, tk |-> [tk EXCEPT !.token_pointer = <<p>>]]
        ELSE [raised |-> FALSE,
              tk |-> [tk EXCEPT !.token_pointer = <<p>>,
                                !.current_token = <<tk.token_type_list[p + 1][1]>>,
                                !.current_type  = <<tk.token_type_list[p + 1][2]>>,
                                !.current_xml   = <<tk.token_type_list[p + 1][3]>>]]

\* next() that forgets the current token where it raises
Tokenizer_next_cleared(tk) ==
    LET p == IF tk.token_pointer = <<>> THEN 0 ELSE tk.token_pointer[1] + 1
    IN  IF p >= Len(tk.token_type_list)
        THEN [raised |-> TRUE,
              tk |-> [tk EXCEPT !.token_pointer = <<p - 1>>,
                                !.current_token = <<>>,
                                !.current_type  = <<>>,
                                !.current_xml   = <<>>]]
        ELSE [raised |-> FALSE,
              tk |-> [tk EXCEPT !.token_pointer = <<p>>,
                                !.current_token = <<tk.token_type_list[p + 1][1]>>,
                                !.current_type  = <<tk.token_type_list[p + 1][2]>>,
                                !.current_xml   = <<tk.token_type_list[p + 1][3]>>]]

\* next() with its line 52 setting the pointer to 0, the first token
Tokenizer_next_rewind(tk) ==
    LET p == IF tk.token_pointer = <<>> THEN 0 ELSE tk.token_pointer[1] + 1
    IN  IF p >= Len(tk.token_type_list)
        THEN [raised |-> TRUE, tk |-> [tk EXCEPT !.token_pointer = <<0>>]]
        ELSE [raised |-> FALSE,
              tk |-> [tk EXCEPT !.token_pointer = <<p>>,
                                !.current_token = <<tk.token_type_list[p + 1][1]>>,
                                !.current_type  = <<tk.token_type_list[p + 1][2]>>,
                                !.current_xml   = <<tk.token_type_list[p + 1][3]>>]]

Tokenizer_next(tk) ==
    LET p == IF tk.token_pointer = <<>> THEN 0 ELSE tk.token_pointer[1] + 1
    IN  IF p >= Len(tk.token_type_list)
        THEN [raised |-> TRUE, tk |-> [tk EXCEPT !.token_pointer = <<p - 1>>]]
        ELSE [raised |-> FALSE,
              tk |-> [tk EXCEPT !.token_pointer = <<p>>,
                                !.current_token = <<tk.token_type_list[p + 1][1]>>,
                                !.current_type  = <<tk.token_type_list[p + 1][2]>>,
                                !.current_xml   = <<tk.token_type_list[p + 1][3]>>]]

current_token(tk) == tk.current_token[1]

current_type(tk) == tk.current_type[1]

current_tag(tk) == tk.current_xml[1]

(***************************************************************************)
(* symbol_table.py                                                         *)
(***************************************************************************)
STATIC_KIND == "static"
FIELD_KIND == "field"
ARG_KIND == "arg"
LOCAL_KIND == "local"
FIRST_KIND_INDEX == 0

DECLARING == "declaring"
USING == "using"

\* Row(name, identifier_type, kind, use): identifier_number is None until add_row
Row(name, identifier_type, kind, use) ==
    [name |-> name, identifier_type |-> identifier_type, kind |-> kind,
     identifier_number |-> <<>>, use |-> use]

\* SingleTable(): __table is a dict, which keeps insertion order: a sequence of
\* rows with distinct names
SingleTable ==
    [table |-> <<>>,
     next_static_index |-> FIRST_KIND_INDEX,
     next_field_index  |-> FIRST_KIND_INDEX,
     next_arg_index    |-> FIRST_KIND_INDEX,
     next_var_index    |-> FIRST_KIND_INDEX]

SingleTable_contains(t, token) == \E i \in 1..Len(t.table) : t.table[i].name = token

\* self.__table[token], for a token the table contains
SingleTable_row(t, token) == t.table[CHOOSE i \in 1..Len(t.table) : t.table[i].name = token]

\* get_number_of_field_variables as the number of all the rows, statics too
get_number_of_all_variables(t) == Len(t.table)

get_number_of_field_variables(t) == t.next_field_index

\* add_row with one counter for all the kinds: the number of the rows so far
add_row_one_counter(t, new_row) ==
    IF SingleTable_contains(t, new_row.name) THEN [raised |-> TRUE, t |-> t]
    ELSE [raised |-> FALSE,
          t |-> [t EXCEPT !.table = Append(@, [new_row EXCEPT !.identifier_number = <<Len(t.table)>>]),
                          !.next_field_index = IF new_row.kind = FIELD_KIND THEN @ + 1 ELSE @]]

\* add_row without the test of lines 165-166: the row is numbered and counted,
\* and line 184 puts it in the place of the row of its name
add_row_no_duplicate_test(t, new_row) ==
    LET number == IF new_row.kind = STATIC_KIND THEN t.next_static_index
                  ELSE IF new_row.kind = FIELD_KIND THEN t.next_field_index
                  ELSE IF new_row.kind = ARG_KIND THEN t.next_arg_index
                  ELSE t.next_var_index
        row == [new_row EXCEPT !.identifier_number = <<number>>]
    IN  [raised |-> FALSE,
         t |-> [t EXCEPT
                  !.table = IF SingleTable_contains(t, new_row.name)
                            THEN [i \in 1..Len(t.table) |->
                                     IF t.table[i].name = new_row.name THEN row ELSE t.table[i]]
                            ELSE Append(t.table, row),
                  !.next_static_index = IF new_row.kind = STATIC_KIND THEN @ + 1 ELSE @,
                  !.next_field_index = IF new_row.kind = FIELD_KIND THEN @ + 1 ELSE @,
                  !.next_arg_index = IF new_row.kind = ARG_KIND THEN @ + 1 ELSE @,
                  !.next_var_index = IF new_row.kind = LOCAL_KIND THEN @ + 1 ELSE @]]

\* SingleTable.add_row: the table after it, or raised (KeyError for a name the
\* table holds, ValueError for an unknown kind)
add_row(t, new_row) ==
    IF SingleTable_contains(t, new_row.name) THEN [raised |-> TRUE, t |-> t]
    ELSE IF new_row.kind = STATIC_KIND THEN
        [raised |-> FALSE,
         t |-> [t EXCEPT !.table = Append(@, [new_row EXCEPT !.identifier_number = <<t.next_static_index>>]),
                         !.next_static_index = @ + 1]]
    ELSE IF new_row.kind = FIELD_KIND THEN
        [raised |-> FALSE,
         t |-> [t EXCEPT !.table = Append(@, [new_row EXCEPT !.identifier_number = <<t.next_field_index>>]),
                         !.next_field_index = @ + 1]]
    ELSE IF new_row.kind = ARG_KIND THEN
        [raised |-> FALSE,
         t |-> [t EXCEPT !.table = Append(@, [new_row EXCEPT !.identifier_number = <<t.next_arg_index>>]),
                         !.next_arg_index = @ + 1]]
    ELSE IF new_row.kind = LOCAL_KIND THEN
        [raised |-> FALSE,
         t |-> [t EXCEPT !.table = Append(@, [new_row EXCEPT !.identifier_number = <<t.next_var_index>>]),
                         !.next_var_index = @ + 1]]
    ELSE [raised |-> TRUE, t |-> t]

\* SymbolTable()
SymbolTable == [class_table |-> SingleTable, subroutine_table |-> SingleTable]

\* new_subroutine as a clear() of the dict of the subroutine table: the rows
\* go and the four counters stay
new_subroutine_rows_cleared(st) == [st EXCEPT !.subroutine_table.table = <<>>]

\* new_subroutine without its line 29: the subroutine table is kept
new_subroutine_kept(st) == st

new_subroutine(st) == [st EXCEPT !.subroutine_table = SingleTable]

\* contains with the test of the class table only
contains_class_table(st, token) == SingleTable_contains(st.class_table, token)

contains(st, token) ==
    SingleTable_contains(st.class_table, token) \/ SingleTable_contains(st.subroutine_table, token)

\* the getters with their two tests in the other order: the class table first
lookup_class_first(st, token) ==
    IF SingleTable_contains(st.class_table, token)
    THEN <<SingleTable_row(st.class_table, token)>>
    ELSE IF SingleTable_contains(st.subroutine_table, token)
    THEN <<SingleTable_row(st.subroutine_table, token)>>
    ELSE <<>>

\* the row the getters of SymbolTable read: <<row>>, or <<>> where they raise KeyError
lookup(st, token) ==
    IF SingleTable_contains(st.subroutine_table, token)
    THEN <<SingleTable_row(st.subroutine_table, token)>>
    ELSE IF SingleTable_contains(st.class_table, token)
    THEN <<SingleTable_row(st.class_table, token)>>
    ELSE <<>>

\* get_kind, get_index, get_type of a token the symbol table contains
get_kind(st, token) == lookup(st, token)[1].kind

get_index(st, token) == lookup(st, token)[1].identifier_number[1]

get_type(st, token) == lookup(st, token)[1].identifier_type

get_num_class_fields(st) == get_number_of_field_variables(st.class_table)

(***************************************************************************)
(* vm_writer.py.  A line of the output is the tuple of its fields, the     *)
(* text between its spaces: "push constant 7\n" is <<"push", "constant",   *)
(* "7">>; a comment line "// text\n" is <<"//", text>>.  An index or a     *)
(* count reaches a write_* command as text: the caller applies the str()   *)
(* of the command's f-string to an int, and passes a token as it is.       *)
(***************************************************************************)
ARGUMENT_SEGMENT == "argument"
CONSTANT_SEGMENT == "constant"
POINTER_SEGMENT == "pointer"
TEMP_SEGMENT == "temp"
THAT_SEGMENT == "that"

TOKEN_TO_VM_ARITHMETIC ==
    [t \in {"+", "-", "&", "&amp;", "|", "<", "&lt;", ">", "&gt;", "="} |->
        CASE t = "+" -> "add"
          [] t = "-" -> "sub"
          [] t \in {"&", "&amp;"} -> "and"
          [] t = "|" -> "or"
          [] t \in {"<", "&lt;"} -> "lt"
          [] t \in {">", "&gt;"} -> "gt"
          [] t = "=" -> "eq"]

\* the table of lines 24-33 with each key mapped to itself
SYMBOL_TABLE_TO_VM_SEGMENT_untranslated ==
    [k \in {"static", "field", "arg", "argument", "var", "local",
            "pointer", "constant", "temp", "that"} |-> k]

SYMBOL_TABLE_TO_VM_SEGMENT ==
    [k \in {"static", "field", "arg", "argument", "var", "local",
            "pointer", "constant", "temp", "that"} |->
        CASE k = "static" -> "static"
          [] k = "field" -> "this"
          [] k \in {"arg", "argument"} -> ARGUMENT_SEGMENT
          [] k \in {"var", "local"} -> "local"
          [] k = "pointer" -> POINTER_SEGMENT
          [] k = "constant" -> CONSTANT_SEGMENT
          [] k = "temp" -> TEMP_SEGMENT
          [] k = "that" -> THAT_SEGMENT]

write_push_command(out, segment, index) ==
    Append(out, <<"push", SYMBOL_TABLE_TO_VM_SEGMENT[segment], index>>)

write_pop_command(out, segment, index) ==
    Append(out, <<"pop", SYMBOL_TABLE_TO_VM_SEGMENT[segment], index>>)

write_arithmetic_command(out, command) == Append(out, <<command>>)

write_label_command(out, label) == Append(out, <<"label", label>>)

write_goto_command(out, label) == Append(out, <<"goto", label>>)

write_if_command(out, label) == Append(out, <<"if-goto", label>>)

write_call_command(out, name, nArgs) == Append(out, <<"call", name, nArgs>>)

write_function_command(out, name, nLocals) == Append(out, <<"function", name, nLocals>>)

write_return_command(out) == Append(out, <<"return">>)

write_void_return(out) == write_return_command(write_push_command(out, CONSTANT_SEGMENT, str(0)))

write_comment(out, comment_text) == Append(out, <<"//", comment_text>>)

\* write_op without the table of line 69: the operator token is written as it is
write_op_token(out, operator) ==
    IF operator = "*" THEN write_call_command(out, "Math.multiply", str(2))
    ELSE IF operator = "/" THEN write_call_command(out, "Math.divide", str(2))
    ELSE write_arithmetic_command(out, operator)

\* write_op, for an operator of TERM_OPS (each is "*", "/" or a key of
\* TOKEN_TO_VM_ARITHMETIC, so the KeyError of line 67 cannot be raised)
write_op(out, operator) ==
    IF operator = "*" THEN write_call_command(out, "Math.multiply", str(2))
    ELSE IF operator = "/" THEN write_call_command(out, "Math.divide", str(2))
    ELSE write_arithmetic_command(out, TOKEN_TO_VM_ARITHMETIC[operator])

\* the loop of lines 87-89 from the i-th character of token on
RECURSIVE write_string_chars(_, _, _)
write_string_chars(out, token, i) ==
    IF i > Len(token) THEN out
    ELSE write_string_chars(
            write_call_command(
                write_push_command(out, CONSTANT_SEGMENT, str(ord(Ch(token, i)))),
                "String.appendChar", str(2)),
            token, i + 1)

\* write_constant_int_string_keyword, for a token the engine passes: its type is
\* integerConstant or stringConstant, or the token is a keyword constant
write_constant_int_string_keyword(out, token_type, token) ==
    IF token_type = INTEGER_CONSTANT_TAG THEN
        write_push_command(out, CONSTANT_SEGMENT, token)
    ELSE IF token_type = STRING_CONSTANT_TAG THEN
        write_string_chars(
            write_call_command(
                write_push_command(
                    write_comment(out, "string constant: " \o token),
                    CONSTANT_SEGMENT, str(Len(token))),
                "String.new", str(1)),
            token, 1)
    ELSE IF token = "this" THEN write_push_command(out, POINTER_SEGMENT, str(0))
    ELSE IF token = "true" THEN
        write_arithmetic_command(write_push_command(out, CONSTANT_SEGMENT, str(1)), "neg")
    ELSE write_push_command(out, CONSTANT_SEGMENT, str(0))

\* write_unary_op, for an operator of UNARY_OP
write_unary_op(out, operator) ==
    IF operator = "-" THEN write_arithmetic_command(out, "neg")
    ELSE write_arithmetic_command(out, "not")

(***************************************************************************)
(* tokenizer.py as the engine calls it.  look_ahead_token is called at     *)
(* compilation_engine.py line 645 and is not defined in tokenizer.py: it   *)
(* is modelled from the lexer's contract, "lookahead(1) returns the lexeme *)
(* one past the current without advancing".  The contract leaves open what *)
(* happens with no token past the current one: the call raises, or it      *)
(* returns a tuple of None (written <<"", "", "">>).                       *)
(***************************************************************************)
look_ahead_token(tk) ==
    IF tk.token_pointer[1] + 1 < Len(tk.token_type_list)
    THEN {[raised |-> FALSE, token |-> tk.token_type_list[tk.token_pointer[1] + 2]]}
    ELSE {[raised |-> TRUE, token |-> <<"", "", "">>],
          [raised |-> FALSE, token |-> <<"", "", "">>]}

(***************************************************************************)
(* compilation_engine.py: helpers                                          *)
(***************************************************************************)
\* _validate_and_advance_helper: the tokenizer after it, or raised
validate_and_advance_helper(tk, source, target) ==
    IF source \in target THEN Tokenizer_next(tk) ELSE [raised |-> TRUE, tk |-> tk]

validate_type_and_advance(tk, target) ==
    validate_and_advance_helper(tk, current_type(tk), target)

validate_token_and_advance(tk, target) ==
    validate_and_advance_helper(tk, current_token(tk), target)

\* _add_var_to_symbol_table: the symbol table after it, or raised
add_var_to_symbol_table(st, name, identifier_type, kind, use, is_class_var) ==
    IF is_class_var
    THEN LET r == add_row(st.class_table, Row(name, identifier_type, kind, use))
         IN  [raised |-> r.raised, st |-> [st EXCEPT !.class_table = r.t]]
    ELSE LET r == add_row(st.subroutine_table, Row(name, identifier_type, kind, use))
         IN  [raised |-> r.raised, st |-> [st EXCEPT !.subroutine_table = r.t]]

\* _get_unique_if_label without its line 871, the increment
get_unique_if_label_no_increment(e) ==
    [label |-> e.current_class \o "." \o e.current_subroutine_name
                  \o "If" \o str(e.current_index_if),
     eng |-> e]

\* _get_unique_if_label: the label, and the engine's fields after it
get_unique_if_label(e) ==
    [label |-> e.current_class \o "." \o e.current_subroutine_name
                  \o "If" \o str(e.current_index_if),
     eng |-> [e EXCEPT !.current_index_if = @ + 1]]

\* _get_unique_while_label without its line 882, the increment
get_unique_while_label_no_increment(e) ==
    [label |-> e.current_class \o "." \o e.current_subroutine_name
                  \o "While" \o str(e.current_index_while),
     eng |-> e]

\* _get_unique_while_label: the label, and the engine's fields after it
get_unique_while_label(e) ==
    [label |-> e.current_class \o "." \o e.current_subroutine_name
                  \o "While" \o str(e.current_index_while),
     eng |-> [e EXCEPT !.current_index_while = @ + 1]]

\* _reset_subroutine_properties, on the engine's fields (its last line, the
\* new_subroutine() of the symbol table, is applied where it is called)
reset_subroutine_properties(e) ==
    [e EXCEPT !.current_subroutine_name = <<>>,
              !.current_subroutine_type = <<>>,
              !.current_subroutine_return_type = <<>>,
              !.current_subroutine_n_locals = 0]

\* the engine's fields as __init__ sets them (lines 39-46)
NewEngine ==
    [current_index_while |-> 0,
     current_index_if |-> 0,
     current_class |-> <<>>,
     current_subroutine_name |-> <<>>,
     current_subroutine_type |-> <<>>,
     current_subroutine_return_type |-> <<>>,
     current_subroutine_n_locals |-> <<>>,
     current_subroutine_args |-> <<>>]

(***************************************************************************)
(* The call stack.  A frame is a record: fn names the _compile_* method,   *)
(* pc the place in it where it goes on, and the other fields are the       *)
(* method's parameters and local variables that it still reads.  A method  *)
(* whose last act is to call another one is replaced by it on the stack.   *)
(* An exception is caught nowhere: it ends the compilation.                *)
(***************************************************************************)
Top == stack[Len(stack)]

At(fn, pc) == status = "running" /\ stack # <<>> /\ Top.fn = fn /\ Top.pc = pc

Goto(pc) == [stack EXCEPT ![Len(stack)].pc = pc]

Return == SubSeq(stack, 1, Len(stack) - 1)

Call(pc, frame) == Append(Goto(pc), frame)

TailCall(frame) == Append(Return, frame)

Raise == status' = "error" /\ stack' = <<>>

Resume(stk) == status' = "running" /\ stack' = stk

Cur == current_token(tokenizer)

CurType == current_type(tokenizer)

(***************************************************************************)
(* CompilationEngine.__init__ (lines 28-48) up to the call of              *)
(* _compile_class                                                          *)
(***************************************************************************)
CompilationEngine_init ==
    /\ status = "start"
    /\ LET c == Tokenizer_init(tokenizer.input_string)
           n == Tokenizer_next(c.tk)
       IN  IF c.raised THEN tokenizer' = c.tk /\ Raise
           ELSE /\ tokenizer' = n.tk
                /\ IF n.raised \/ current_token(n.tk) # "class" THEN Raise
                   ELSE Resume(<<[fn |-> "compile_class", pc |-> "class"]>>)
    /\ symbol_table' = SymbolTable
    /\ output' = <<>>
    /\ eng' = NewEngine

(***************************************************************************)
(* _compile_class                                                          *)
(***************************************************************************)
compile_class_class ==
    /\ At("compile_class", "class")
    /\ LET v == validate_token_and_advance(tokenizer, {"class"})
       IN  /\ tokenizer' = v.tk
           /\ IF v.raised THEN Raise ELSE Resume(Goto("name"))
    /\ UNCHANGED <<symbol_table, output, eng>>

compile_class_name ==
    /\ At("compile_class", "name")
    /\ eng' = [eng EXCEPT !.current_class = Cur]
    /\ LET v == validate_type_and_advance(tokenizer, {IDENTIFIER_TAG})
       IN  /\ tokenizer' = v.tk
           /\ IF v.raised THEN Raise ELSE Resume(Goto("lbrace"))
    /\ UNCHANGED <<symbol_table, output>>

compile_class_lbrace ==
    /\ At("compile_class", "lbrace")
    /\ LET v == validate_token_and_advance(tokenizer, {"{"})
       IN  /\ tokenizer' = v.tk
           /\ IF v.raised THEN Raise ELSE Resume(Goto("var_decs"))
    /\ UNCHANGED <<symbol_table, output, eng>>

\* lines 95-97, the loop's test is true and the if's test is true
compile_class_var_decs_dec ==
    /\ At("compile_class", "var_decs")
    /\ Cur \notin SUBROUTINE_OR_CLASS_END
    /\ Cur \in {"static", "field"}
    /\ Resume(Call("var_decs", [fn |-> "compile_class_var_dec", pc |-> "kind"]))
    /\ UNCHANGED <<tokenizer, symbol_table, output, eng>>

\* lines 95-96, the loop's test is true and the if's test is false: the loop
\* turns and nothing has changed
compile_class_var_decs_turn ==
    /\ At("compile_class", "var_decs")
    /\ Cur \notin SUBROUTINE_OR_CLASS_END
    /\ Cur \notin {"static", "field"}
    /\ UNCHANGED vars

\* line 95, the loop's test is false
compile_class_var_decs_end ==
    /\ At("compile_class", "var_decs")
    /\ Cur \in SUBROUTINE_OR_CLASS_END
    /\ Resume(Goto("subroutines"))
    /\ UNCHANGED <<tokenizer, symbol_table, output, eng>>

\* lines 100-102, the loop's test is true and the if's test is true
compile_class_subroutines_dec ==
    /\ At("compile_class", "subroutines")
    /\ Cur # "}"
    /\ Cur \in SUBROUTINE_DEC_SET
    /\ Resume(Call("subroutines", [fn |-> "compile_subroutine", pc |-> "kind"]))
    /\ UNCHANGED <<tokenizer, symbol_table, output, eng>>

\* lines 100-101, the loop's test is true and the if's test is false: the loop
\* turns and nothing has changed
compile_class_subroutines_turn ==
    /\ At("compile_class", "subroutines")
    /\ Cur # "}"
    /\ Cur \notin SUBROUTINE_DEC_SET
    /\ UNCHANGED vars

\* lines 100-111, the loop's test is false: the token is "}", _compile_class
\* returns and with it __init__
compile_class_end ==
    /\ At("compile_class", "subroutines")
    /\ Cur = "}"
    /\ status' = "done"
    /\ stack' = <<>>
    /\ UNCHANGED <<tokenizer, symbol_table, output, eng>>

(***************************************************************************)
(* _compile_class_var_dec, _compile_subroutine_var_dec, _compile_var_list  *)
(***************************************************************************)
compile_class_var_dec ==
    /\ At("compile_class_var_dec", "kind")
    /\ LET n == Tokenizer_next(tokenizer)
       IN  /\ tokenizer' = n.tk
           /\ IF n.raised THEN Raise
              ELSE Resume(TailCall([fn |-> "compile_var_list", pc |-> "type",
                                    var_kind |-> Cur, is_class_var |-> TRUE,
                                    var_type |-> <<>>]))
    /\ UNCHANGED <<symbol_table, output, eng>>

compile_subroutine_var_dec ==
    /\ At("compile_subroutine_var_dec", "var")
    /\ LET n == Tokenizer_next(tokenizer)
       IN  /\ tokenizer' = n.tk
           /\ IF n.raised THEN Raise
              ELSE Resume(TailCall([fn |-> "compile_var_list", pc |-> "type",
                                    var_kind |-> LOCAL_KIND, is_class_var |-> FALSE,
                                    var_type |-> <<>>]))
    /\ UNCHANGED <<symbol_table, output, eng>>

\* lines 752-754
compile_var_list_type ==
    /\ At("compile_var_list", "type")
    /\ LET v == validate_type_and_advance(tokenizer, {KEYWORD_TAG, IDENTIFIER_TAG})
       IN  /\ tokenizer' = v.tk
           /\ IF v.raised THEN Raise
              ELSE Resume([stack EXCEPT ![Len(stack)].pc = "name",
                                        ![Len(stack)].var_type = Cur])
    /\ UNCHANGED <<symbol_table, output, eng>>

\* one variable name: lines 756-762, and lines 769-776 in the loop
VarListName ==
    LET a == add_var_to_symbol_table(symbol_table, Cur, Top.var_type, Top.var_kind,
                                     DECLARING, Top.is_class_var)
        v == validate_type_and_advance(tokenizer, {IDENTIFIER_TAG})
    IN  /\ symbol_table' = a.st
        /\ IF a.raised THEN tokenizer' = tokenizer /\ eng' = eng /\ Raise
           ELSE /\ tokenizer' = v.tk
                /\ IF v.raised THEN eng' = eng /\ Raise
                   ELSE /\ eng' = IF Top.is_class_var THEN eng
                                  ELSE [eng EXCEPT !.current_subroutine_n_locals = @ + 1]
                        /\ Resume(Goto("more"))
        /\ UNCHANGED output

compile_var_list_name ==
    /\ At("compile_var_list", "name")
    /\ VarListName

\* lines 765-783
compile_var_list_more ==
    /\ At("compile_var_list", "more")
    /\ IF Cur = ";" THEN
            LET n == Tokenizer_next(tokenizer)
            IN  /\ tokenizer' = n.tk
                /\ IF n.raised THEN Raise ELSE Resume(Return)
                /\ UNCHANGED <<symbol_table, output, eng>>
       ELSE IF Cur = "," THEN
            LET v == validate_token_and_advance(tokenizer, {","})
            IN  /\ tokenizer' = v.tk
                /\ IF v.raised THEN Raise ELSE Resume(stack)
                /\ UNCHANGED <<symbol_table, output, eng>>
       ELSE IF CurType = IDENTIFIER_TAG THEN VarListName
       ELSE Raise /\ UNCHANGED <<tokenizer, symbol_table, output, eng>>

(***************************************************************************)
(* _compile_subroutine, _compile_paramater_list, _compile_subroutine_body  *)
(***************************************************************************)
\* lines 152-165: the token is constructor, function or method
compile_subroutine_kind ==
    /\ At("compile_subroutine", "kind")
    /\ LET st == new_subroutine(symbol_table)
           a  == add_var_to_symbol_table(st, "this", eng.current_class, ARG_KIND,
                                         DECLARING, FALSE)
           n  == Tokenizer_next(tokenizer)
       IN  /\ eng' = [reset_subroutine_properties(eng) EXCEPT !.current_subroutine_type = Cur]
           /\ symbol_table' = IF Cur = "method" THEN a.st ELSE st
           /\ tokenizer' = n.tk
           /\ IF n.raised THEN Raise ELSE Resume(Goto("return_type"))
    /\ UNCHANGED output

\* lines 168-170
compile_subroutine_return_type ==
    /\ At("compile_subroutine", "return_type")
    /\ eng' = [eng EXCEPT !.current_subroutine_return_type = Cur]
    /\ LET v == validate_type_and_advance(tokenizer, {KEYWORD_TAG, IDENTIFIER_TAG})
       IN  /\ tokenizer' = v.tk
           /\ IF v.raised THEN Raise ELSE Resume(Goto("name"))
    /\ UNCHANGED <<symbol_table, output>>

\* lines 173-177
compile_subroutine_name ==
    /\ At("compile_subroutine", "name")
    /\ eng' = [eng EXCEPT !.current_subroutine_name = Cur]
    /\ output' = write_comment(output, Cur \o " ; return: " \o eng.current_subroutine_return_type)
    /\ LET v == validate_type_and_advance(tokenizer, {IDENTIFIER_TAG})
       IN  /\ tokenizer' = v.tk
           /\ IF v.raised THEN Raise ELSE Resume(Goto("lparen"))
    /\ UNCHANGED symbol_table

\* lines 179-181
compile_subroutine_lparen ==
    /\ At("compile_subroutine", "lparen")
    /\ LET v == validate_token_and_advance(tokenizer, {"("})
       IN  /\ tokenizer' = v.tk
           /\ IF v.raised THEN Raise
              ELSE Resume(Call("rparen", [fn |-> "compile_paramater_list", pc |-> "loop",
                                          var_type |-> <<>>]))
    /\ UNCHANGED <<symbol_table, output, eng>>

\* lines 183-190
compile_subroutine_rparen ==
    /\ At("compile_subroutine", "rparen")
    /\ LET v == validate_token_and_advance(tokenizer, {")"})
       IN  /\ tokenizer' = v.tk
           /\ IF v.raised \/ current_token(v.tk) # "{" THEN Raise
              ELSE Resume(TailCall([fn |-> "compile_subroutine_body", pc |-> "lbrace"]))
    /\ UNCHANGED <<symbol_table, output, eng>>

\* lines 205-211 and 218-219
compile_paramater_list_loop ==
    /\ At("compile_paramater_list", "loop")
    /\ IF Cur = ")" THEN tokenizer' = tokenizer /\ Resume(Return)
       ELSE IF Cur = "," THEN
            LET v == validate_token_and_advance(tokenizer, {","})
            IN  /\ tokenizer' = v.tk
                /\ IF v.raised THEN Raise ELSE Resume(stack)
       ELSE LET v == validate_type_and_advance(tokenizer, {KEYWORD_TAG, IDENTIFIER_TAG})
            IN  /\ tokenizer' = v.tk
                /\ IF v.raised THEN Raise
                   ELSE Resume([stack EXCEPT ![Len(stack)].pc = "name",
                                             ![Len(stack)].var_type = Cur])
    /\ UNCHANGED <<symbol_table, output, eng>>

\* lines 212-216
compile_paramater_list_name ==
    /\ At("compile_paramater_list", "name")
    /\ LET v == validate_type_and_advance(tokenizer, {IDENTIFIER_TAG})
           a == add_var_to_symbol_table(symbol_table, Cur, Top.var_type, ARG_KIND,
                                        DECLARING, FALSE)
       IN  /\ tokenizer' = v.tk
           /\ IF v.raised THEN symbol_table' = symbol_table /\ Raise
              ELSE /\ symbol_table' = a.st
                   /\ IF a.raised THEN Raise ELSE Resume(Goto("loop"))
    /\ UNCHANGED <<output, eng>>

\* lines 232-233: the token is "{"
compile_subroutine_body_lbrace ==
    /\ At("compile_subroutine_body", "lbrace")
    /\ LET n == Tokenizer_next(tokenizer)
       IN  /\ tokenizer' = n.tk
           /\ IF n.raised THEN Raise ELSE Resume(Goto("var_decs"))
    /\ UNCHANGED <<symbol_table, output, eng>>

\* lines 236-237, the loop's test is true
compile_subroutine_body_var_dec ==
    /\ At("compile_subroutine_body", "var_decs")
    /\ Cur \notin STATEMENT_OR_ROUTINE_END
    /\ Resume(Call("var_decs", [fn |-> "compile_subroutine_var_dec", pc |-> "var"]))
    /\ UNCHANGED <<tokenizer, symbol_table, output, eng>>

\* lines 246-255: what a subroutine of this type writes after its function command
subroutine_prologue(out, subroutine_type, st) ==
    IF subroutine_type = "method" THEN
        write_pop_command(write_push_command(out, ARGUMENT_SEGMENT, str(0)),
                          POINTER_SEGMENT, str(0))
    ELSE IF subroutine_type = "constructor" THEN
        write_pop_command(
            write_call_command(
                write_push_command(out, CONSTANT_SEGMENT, str(get_num_class_fields(st))),
                "Memory.alloc", str(1)),
            POINTER_SEGMENT, str(0))
    ELSE out

\* lines 236-255 with the number of the rows of the subroutine table, the
\* arguments too, in the place of the count of locals
compile_subroutine_body_function_all_rows ==
    /\ At("compile_subroutine_body", "var_decs")
    /\ Cur \in STATEMENT_OR_ROUTINE_END
    /\ output' = subroutine_prologue(
                    write_function_command(output,
                        eng.current_class \o "." \o eng.current_subroutine_name,
                        str(Len(symbol_table.subroutine_table.table))),
                    eng.current_subroutine_type, symbol_table)
    /\ Resume(Goto("statements"))
    /\ UNCHANGED <<tokenizer, symbol_table, eng>>

\* lines 236-255, the loop's test is false
compile_subroutine_body_function ==
    /\ At("compile_subroutine_body", "var_decs")
    /\ Cur \in STATEMENT_OR_ROUTINE_END
    /\ output' = subroutine_prologue(
                    write_function_command(output,
                        eng.current_class \o "." \o eng.current_subroutine_name,
                        str(eng.current_subroutine_n_locals)),
                    eng.current_subroutine_type, symbol_table)
    /\ Resume(Goto("statements"))
    /\ UNCHANGED <<tokenizer, symbol_table, eng>>

\* lines 258-259, the loop's test is true
compile_subroutine_body_statements ==
    /\ At("compile_subroutine_body", "statements")
    /\ Cur # "}"
    /\ Resume(Call("statements", [fn |-> "compile_statements", pc |-> "loop"]))
    /\ UNCHANGED <<tokenizer, symbol_table, output, eng>>

\* lines 258-266, the loop's test is false: the token is "}"
compile_subroutine_body_rbrace ==
    /\ At("compile_subroutine_body", "statements")
    /\ Cur = "}"
    /\ LET n == Tokenizer_next(tokenizer)
       IN  /\ tokenizer' = n.tk
           /\ IF n.raised THEN Raise ELSE Resume(Return)
    /\ UNCHANGED <<symbol_table, output, eng>>

(***************************************************************************)
(* _compile_statements and the statements                                  *)
(***************************************************************************)
\* lines 302-322
compile_statements ==
    /\ At("compile_statements", "loop")
    /\ IF Cur = "}" THEN Resume(Return)
       ELSE IF Cur = "do" THEN Resume(Call("loop", [fn |-> "compile_do_statement", pc |-> "do"]))
       ELSE IF Cur = "let" THEN
            Resume(Call("loop", [fn |-> "compile_let_statement", pc |-> "let",
                                 is_array |-> FALSE, target_var |-> <<>>]))
       ELSE IF Cur = "while" THEN
            Resume(Call("loop", [fn |-> "compile_while_statement", pc |-> "while",
                                 l1 |-> <<>>, l2 |-> <<>>]))
       ELSE IF Cur = "return" THEN
            Resume(Call("loop", [fn |-> "compile_return_statement", pc |-> "return"]))
       ELSE IF Cur = "if" THEN
            Resume(Call("loop", [fn |-> "compile_if_statement", pc |-> "if",
                                 l1 |-> <<>>, l2 |-> <<>>]))
       ELSE Raise
    /\ UNCHANGED <<tokenizer, symbol_table, output, eng>>

\* lines 335-338: the token is do
compile_do_statement_do ==
    /\ At("compile_do_statement", "do")
    /\ LET n == Tokenizer_next(tokenizer)
       IN  /\ tokenizer' = n.tk
           /\ IF n.raised THEN Raise
              ELSE Resume(Call("semicolon", [fn |-> "compile_subroutine_call", pc |-> "name",
                                             name_1 |-> <<>>, subroutine_call_name |-> <<>>]))
    /\ UNCHANGED <<symbol_table, output, eng>>

\* lines 340-347 without line 344: the value of the call is left on the stack
compile_do_statement_semicolon_no_pop ==
    /\ At("compile_do_statement", "semicolon")
    /\ LET v == validate_token_and_advance(tokenizer, {";"})
       IN  /\ tokenizer' = v.tk
           /\ IF v.raised THEN output' = output /\ Raise
              ELSE /\ output' = output
                   /\ Resume(Return)
    /\ UNCHANGED <<symbol_table, eng>>

\* lines 340-347
compile_do_statement_semicolon ==
    /\ At("compile_do_statement", "semicolon")
    /\ LET v == validate_token_and_advance(tokenizer, {";"})
       IN  /\ tokenizer' = v.tk
           /\ IF v.raised THEN output' = output /\ Raise
              ELSE /\ output' = write_pop_command(output, TEMP_SEGMENT, str(0))
                   /\ Resume(Return)
    /\ UNCHANGED <<symbol_table, eng>>

\* the frames of _compile_expression(stop_chars), _compile_statements, _compile_term
expression_frame(stop_chars) ==
    [fn |-> "compile_expression", pc |-> "term", stop_chars |-> stop_chars, operator |-> <<>>]

statements_frame == [fn |-> "compile_statements", pc |-> "loop"]

term_frame ==
    [fn |-> "compile_term", pc |-> "term", unary_operator |-> <<>>, target_var |-> <<>>]

\* lines 360-361: the token is let
compile_let_statement_let ==
    /\ At("compile_let_statement", "let")
    /\ LET n == Tokenizer_next(tokenizer)
       IN  /\ tokenizer' = n.tk
           /\ IF n.raised THEN Raise ELSE Resume(Goto("target"))
    /\ UNCHANGED <<symbol_table, output, eng>>

\* lines 363-368
compile_let_statement_target ==
    /\ At("compile_let_statement", "target")
    /\ LET v == validate_type_and_advance(tokenizer, {IDENTIFIER_TAG})
       IN  /\ tokenizer' = v.tk
           /\ IF v.raised THEN Raise
              ELSE Resume([stack EXCEPT
                      ![Len(stack)].target_var = Cur,
                      ![Len(stack)].pc = IF current_token(v.tk) = "[" THEN "lbracket" ELSE "eq"])
    /\ UNCHANGED <<symbol_table, output, eng>>

\* lines 369-373
compile_let_statement_lbracket ==
    /\ At("compile_let_statement", "lbracket")
    /\ LET n == Tokenizer_next(tokenizer)
       IN  /\ tokenizer' = n.tk
           /\ IF n.raised THEN Raise
              ELSE Resume(Append([stack EXCEPT ![Len(stack)].is_array = TRUE,
                                               ![Len(stack)].pc = "rbracket"],
                                 expression_frame({"]"})))
    /\ UNCHANGED <<symbol_table, output, eng>>

\* lines 374-380 with the address popped into pointer 1 at once, not parked
compile_let_statement_rbracket_pointer ==
    /\ At("compile_let_statement", "rbracket")
    /\ LET v == validate_token_and_advance(tokenizer, {"]"})
       IN  /\ tokenizer' = v.tk
           /\ IF v.raised \/ ~contains(symbol_table, Top.target_var)
              THEN output' = output /\ Raise
              ELSE /\ output' = write_pop_command(
                                   write_arithmetic_command(
                                       write_push_command(output,
                                           get_kind(symbol_table, Top.target_var),
                                           str(get_index(symbol_table, Top.target_var))),
                                       "add"),
                                   POINTER_SEGMENT, str(1))
                   /\ Resume(Goto("eq"))
    /\ UNCHANGED <<symbol_table, eng>>

\* lines 374-380
compile_let_statement_rbracket ==
    /\ At("compile_let_statement", "rbracket")
    /\ LET v == validate_token_and_advance(tokenizer, {"]"})
       IN  /\ tokenizer' = v.tk
           /\ IF v.raised \/ ~contains(symbol_table, Top.target_var)
              THEN output' = output /\ Raise
              ELSE /\ output' = write_pop_command(
                                   write_arithmetic_command(
                                       write_push_command(output,
                                           get_kind(symbol_table, Top.target_var),
                                           str(get_index(symbol_table, Top.target_var))),
                                       "add"),
                                   TEMP_SEGMENT, str(1))
                   /\ Resume(Goto("eq"))
    /\ UNCHANGED <<symbol_table, eng>>

\* lines 384-386
compile_let_statement_eq ==
    /\ At("compile_let_statement", "eq")
    /\ LET v == validate_token_and_advance(tokenizer, {"="})
       IN  /\ tokenizer' = v.tk
           /\ IF v.raised THEN Raise
              ELSE Resume(Call("semicolon", expression_frame({";"})))
    /\ UNCHANGED <<symbol_table, output, eng>>

\* lines 388-398
compile_let_statement_semicolon ==
    /\ At("compile_let_statement", "semicolon")
    /\ LET v == validate_token_and_advance(tokenizer, {";"})
       IN  /\ tokenizer' = v.tk
           /\ IF v.raised THEN output' = output /\ Raise
              ELSE IF Top.is_array THEN
                   /\ output' = write_pop_command(
                                   write_pop_command(
                                       write_push_command(output, TEMP_SEGMENT, str(1)),
                                       POINTER_SEGMENT, str(1)),
                                   THAT_SEGMENT, str(0))
                   /\ Resume(Return)
              ELSE IF ~contains(symbol_table, Top.target_var) THEN output' = output /\ Raise
              ELSE /\ output' = write_pop_command(output,
                                   get_kind(symbol_table, Top.target_var),
                                   str(get_index(symbol_table, Top.target_var)))
                   /\ Resume(Return)
    /\ UNCHANGED <<symbol_table, eng>>

\* lines 414-422: the token is while
compile_while_statement_while ==
    /\ At("compile_while_statement", "while")
    /\ LET u1 == get_unique_while_label(eng)
           u2 == get_unique_while_label(u1.eng)
           n  == Tokenizer_next(tokenizer)
       IN  /\ eng' = u2.eng
           /\ tokenizer' = n.tk
           /\ IF n.raised THEN output' = output /\ Raise
              ELSE /\ output' = write_label_command(output, u1.label)
                   /\ Resume([stack EXCEPT ![Len(stack)].l1 = u1.label,
                                           ![Len(stack)].l2 = u2.label,
                                           ![Len(stack)].pc = "lparen"])
    /\ UNCHANGED symbol_table

\* lines 426-428
compile_while_statement_lparen ==
    /\ At("compile_while_statement", "lparen")
    /\ LET v == validate_token_and_advance(tokenizer, {"("})
       IN  /\ tokenizer' = v.tk
           /\ IF v.raised THEN Raise ELSE Resume(Call("rparen", expression_frame({")"})))
    /\ UNCHANGED <<symbol_table, output, eng>>

\* lines 430-435
compile_while_statement_rparen ==
    /\ At("compile_while_statement", "rparen")
    /\ LET v == validate_token_and_advance(tokenizer, {")"})
       IN  /\ tokenizer' = v.tk
           /\ IF v.raised THEN output' = output /\ Raise
              ELSE /\ output' = write_if_command(write_arithmetic_command(output, "not"),
                                                 Top.l2)
                   /\ Resume(Goto("lbrace"))
    /\ UNCHANGED <<symbol_table, eng>>

\* lines 439-441
compile_while_statement_lbrace ==
    /\ At("compile_while_statement", "lbrace")
    /\ LET v == validate_token_and_advance(tokenizer, {"{"})
       IN  /\ tokenizer' = v.tk
           /\ IF v.raised THEN Raise ELSE Resume(Call("rbrace", statements_frame))
    /\ UNCHANGED <<symbol_table, output, eng>>

\* lines 443-449: the token is "}"
compile_while_statement_rbrace ==
    /\ At("compile_while_statement", "rbrace")
    /\ LET n == Tokenizer_next(tokenizer)
       IN  /\ tokenizer' = n.tk
           /\ IF n.raised THEN output' = output /\ Raise
              ELSE /\ output' = write_label_command(write_goto_command(output, Top.l1),
                                                    Top.l2)
                   /\ Resume(Return)
    /\ UNCHANGED <<symbol_table, eng>>

\* lines 465-469: the token is return
compile_return_statement_return ==
    /\ At("compile_return_statement", "return")
    /\ LET n == Tokenizer_next(tokenizer)
       IN  /\ tokenizer' = n.tk
           /\ IF n.raised THEN Raise
              ELSE IF current_token(n.tk) # ";"
              THEN Resume(Call("semicolon", expression_frame({";"})))
              ELSE Resume(Goto("semicolon"))
    /\ UNCHANGED <<symbol_table, output, eng>>

\* lines 471-479
compile_return_statement_semicolon ==
    /\ At("compile_return_statement", "semicolon")
    /\ LET v == validate_token_and_advance(tokenizer, {";"})
       IN  /\ tokenizer' = v.tk
           /\ IF v.raised THEN output' = output /\ Raise
              ELSE /\ output' = IF eng.current_subroutine_return_type = "void"
                                THEN write_void_return(output)
                                ELSE write_return_command(output)
                   /\ Resume(Return)
    /\ UNCHANGED <<symbol_table, eng>>

\* lines 493-498: the token is if
compile_if_statement_if ==
    /\ At("compile_if_statement", "if")
    /\ LET u1 == get_unique_if_label(eng)
           u2 == get_unique_if_label(u1.eng)
           n  == Tokenizer_next(tokenizer)
       IN  /\ eng' = u2.eng
           /\ tokenizer' = n.tk
           /\ IF n.raised THEN Raise
              ELSE Resume([stack EXCEPT ![Len(stack)].l1 = u1.label,
                                        ![Len(stack)].l2 = u2.label,
                                        ![Len(stack)].pc = "lparen"])
    /\ UNCHANGED <<symbol_table, output>>

\* lines 502-504
compile_if_statement_lparen ==
    /\ At("compile_if_statement", "lparen")
    /\ LET v == validate_token_and_advance(tokenizer, {"("})
       IN  /\ tokenizer' = v.tk
           /\ IF v.raised THEN Raise ELSE Resume(Call("rparen", expression_frame({")"})))
    /\ UNCHANGED <<symbol_table, output, eng>>

\* lines 506-511
compile_if_statement_rparen ==
    /\ At("compile_if_statement", "rparen")
    /\ LET v == validate_token_and_advance(tokenizer, {")"})
       IN  /\ tokenizer' = v.tk
           /\ IF v.raised THEN output' = output /\ Raise
              ELSE /\ output' = write_if_command(write_arithmetic_command(output, "not"),
                                                 Top.l1)
                   /\ Resume(Goto("lbrace"))
    /\ UNCHANGED <<symbol_table, eng>>

\* lines 515-517
compile_if_statement_lbrace ==
    /\ At("compile_if_statement", "lbrace")
    /\ LET v == validate_token_and_advance(tokenizer, {"{"})
       IN  /\ tokenizer' = v.tk
           /\ IF v.raised THEN Raise ELSE Resume(Call("rbrace", statements_frame))
    /\ UNCHANGED <<symbol_table, output, eng>>

\* lines 519-541 with lines 526 and 528 exchanged: the label before the goto
compile_if_statement_rbrace_label_first ==
    /\ At("compile_if_statement", "rbrace")
    /\ LET n  == Tokenizer_next(tokenizer)
           o1 == write_goto_command(write_label_command(output, Top.l1), Top.l2)
       IN  /\ tokenizer' = n.tk
           /\ IF n.raised THEN output' = output /\ Raise
              ELSE IF current_token(n.tk) = "else"
              THEN output' = o1 /\ Resume(Goto("else"))
              ELSE output' = write_label_command(o1, Top.l2) /\ Resume(Return)
    /\ UNCHANGED <<symbol_table, eng>>

\* lines 519-529 and, with no else, line 541: the token is "}"
compile_if_statement_rbrace ==
    /\ At("compile_if_statement", "rbrace")
    /\ LET n  == Tokenizer_next(tokenizer)
           o1 == write_label_command(write_goto_command(output, Top.l2), Top.l1)
       IN  /\ tokenizer' = n.tk
           /\ IF n.raised THEN output' = output /\ Raise
              ELSE IF current_token(n.tk) = "else"
              THEN output' = o1 /\ Resume(Goto("else"))
              ELSE output' = write_label_command(o1, Top.l2) /\ Resume(Return)
    /\ UNCHANGED <<symbol_table, eng>>

\* lines 530-531: the token is else
compile_if_statement_else ==
    /\ At("compile_if_statement", "else")
    /\ LET n == Tokenizer_next(tokenizer)
       IN  /\ tokenizer' = n.tk
           /\ IF n.raised THEN Raise ELSE Resume(Goto("else_lbrace"))
    /\ UNCHANGED <<symbol_table, output, eng>>

\* lines 533-535
compile_if_statement_else_lbrace ==
    /\ At("compile_if_statement", "else_lbrace")
    /\ LET v == validate_token_and_advance(tokenizer, {"{"})
       IN  /\ tokenizer' = v.tk
           /\ IF v.raised THEN Raise ELSE Resume(Call("else_rbrace", statements_frame))
    /\ UNCHANGED <<symbol_table, output, eng>>

\* lines 537-541: the token is "}"
compile_if_statement_else_rbrace ==
    /\ At("compile_if_statement", "else_rbrace")
    /\ LET n == Tokenizer_next(tokenizer)
       IN  /\ tokenizer' = n.tk
           /\ IF n.raised THEN output' = output /\ Raise
              ELSE output' = write_label_command(output, Top.l2) /\ Resume(Return)
    /\ UNCHANGED <<symbol_table, eng>>

(***************************************************************************)
(* _compile_expression_list, _compile_expression, _compile_term            *)
(***************************************************************************)
\* lines 562-567, one turn of the loop up to the call of _compile_expression
compile_expression_list ==
    /\ At("compile_expression_list", "loop")
    /\ IF Cur = ")" THEN
            /\ Resume(Return)
            /\ UNCHANGED <<tokenizer, eng>>
       ELSE IF Cur = "," THEN
            LET v == validate_token_and_advance(tokenizer, {","})
            IN  /\ tokenizer' = v.tk
                /\ IF v.raised THEN Raise ELSE Resume(stack)
                /\ eng' = eng
       ELSE /\ eng' = [eng EXCEPT !.current_subroutine_args = @ + 1]
            /\ Resume(Call("loop", expression_frame({",", ")"})))
            /\ tokenizer' = tokenizer
    /\ UNCHANGED <<symbol_table, output>>

\* lines 583-584: current_token() is a str and self is not, so the test is true
compile_expression_term ==
    /\ At("compile_expression", "term")
    /\ Resume(Call("ops", term_frame))
    /\ UNCHANGED <<tokenizer, symbol_table, output, eng>>

\* lines 586-593 with line 593 before line 591: the operator is written as it
\* is read, ahead of its right-hand term
compile_expression_ops_write_first ==
    /\ At("compile_expression", "ops")
    /\ IF Cur \in Top.stop_chars THEN tokenizer' = tokenizer /\ output' = output /\ Resume(Return)
       ELSE LET v == validate_token_and_advance(tokenizer, TERM_OPS)
            IN  /\ tokenizer' = v.tk
                /\ IF v.raised THEN output' = output /\ Raise
                   ELSE /\ output' = write_op(output, Cur)
                        /\ Resume(Append([stack EXCEPT ![Len(stack)].operator = Cur], term_frame))
    /\ UNCHANGED <<symbol_table, eng>>

\* lines 586-591
compile_expression_ops ==
    /\ At("compile_expression", "ops")
    /\ IF Cur \in Top.stop_chars THEN tokenizer' = tokenizer /\ Resume(Return)
       ELSE LET v == validate_token_and_advance(tokenizer, TERM_OPS)
            IN  /\ tokenizer' = v.tk
                /\ IF v.raised THEN Raise
                   ELSE Resume(Append([stack EXCEPT ![Len(stack)].operator = Cur,
                                                    ![Len(stack)].pc = "write_op"],
                                      term_frame))
    /\ UNCHANGED <<symbol_table, output, eng>>

\* line 593
compile_expression_write_op ==
    /\ At("compile_expression", "write_op")
    /\ output' = write_op(output, Top.operator)
    /\ Resume(Goto("ops"))
    /\ UNCHANGED <<tokenizer, symbol_table, eng>>

\* lines 614-619
compile_term_constant ==
    /\ At("compile_term", "term")
    /\ CurType \in {INTEGER_CONSTANT_TAG, STRING_CONSTANT_TAG} \/ Cur \in KEYWORD_CONSTANT
    /\ output' = write_constant_int_string_keyword(output, CurType, Cur)
    /\ LET n == Tokenizer_next(tokenizer)
       IN  /\ tokenizer' = n.tk
           /\ IF n.raised THEN Raise ELSE Resume(Return)
    /\ UNCHANGED <<symbol_table, eng>>

\* lines 621-627
compile_term_unary ==
    /\ At("compile_term", "term")
    /\ ~(CurType \in {INTEGER_CONSTANT_TAG, STRING_CONSTANT_TAG} \/ Cur \in KEYWORD_CONSTANT)
    /\ Cur \in UNARY_OP
    /\ LET n == Tokenizer_next(tokenizer)
       IN  /\ tokenizer' = n.tk
           /\ IF n.raised THEN Raise
              ELSE Resume(Append([stack EXCEPT ![Len(stack)].unary_operator = Cur,
                                               ![Len(stack)].pc = "write_unary_op"],
                                 term_frame))
    /\ UNCHANGED <<symbol_table, output, eng>>

\* line 628
compile_term_write_unary_op ==
    /\ At("compile_term", "write_unary_op")
    /\ output' = write_unary_op(output, Top.unary_operator)
    /\ Resume(Return)
    /\ UNCHANGED <<tokenizer, symbol_table, eng>>

\* lines 630-634
compile_term_lparen ==
    /\ At("compile_term", "term")
    /\ ~(CurType \in {INTEGER_CONSTANT_TAG, STRING_CONSTANT_TAG} \/ Cur \in KEYWORD_CONSTANT)
    /\ Cur = "("
    /\ LET n == Tokenizer_next(tokenizer)
       IN  /\ tokenizer' = n.tk
           /\ IF n.raised THEN Raise ELSE Resume(Call("rparen", expression_frame({")"})))
    /\ UNCHANGED <<symbol_table, output, eng>>

\* lines 636-637
compile_term_rparen ==
    /\ At("compile_term", "rparen")
    /\ LET n == Tokenizer_next(tokenizer)
       IN  /\ tokenizer' = n.tk
           /\ IF n.raised THEN Raise ELSE Resume(Return)
    /\ UNCHANGED <<symbol_table, output, eng>>

\* the test of the else of line 640: none of the cases (1) to (4)
term_is_other ==
    /\ ~(CurType \in {INTEGER_CONSTANT_TAG, STRING_CONSTANT_TAG} \/ Cur \in KEYWORD_CONSTANT)
    /\ Cur \notin UNARY_OP
    /\ Cur # "("

subroutine_call_frame ==
    [fn |-> "compile_subroutine_call", pc |-> "name",
     name_1 |-> <<>>, subroutine_call_name |-> <<>>]

\* lines 642-643, and line 645 where look_ahead_token raises
compile_term_raise ==
    /\ At("compile_term", "term")
    /\ term_is_other
    /\ \/ CurType # IDENTIFIER_TAG
       \/ \E la \in look_ahead_token(tokenizer) : la.raised
    /\ Raise
    /\ UNCHANGED <<tokenizer, symbol_table, output, eng>>

\* lines 645-648
compile_term_subroutine_call ==
    /\ At("compile_term", "term")
    /\ term_is_other
    /\ CurType = IDENTIFIER_TAG
    /\ \E la \in look_ahead_token(tokenizer) : ~la.raised /\ la.token[1] \in {"(", "."}
    /\ Resume(TailCall(subroutine_call_frame))
    /\ UNCHANGED <<tokenizer, symbol_table, output, eng>>

\* lines 650-659
compile_term_array ==
    /\ At("compile_term", "term")
    /\ term_is_other
    /\ CurType = IDENTIFIER_TAG
    /\ \E la \in look_ahead_token(tokenizer) : ~la.raised /\ la.token[1] = "["
    /\ LET v == validate_type_and_advance(tokenizer, {IDENTIFIER_TAG})
           n == Tokenizer_next(v.tk)
       IN  IF v.raised THEN tokenizer' = v.tk /\ Raise
           ELSE /\ tokenizer' = n.tk
                /\ IF n.raised THEN Raise
                   ELSE Resume(Append([stack EXCEPT ![Len(stack)].target_var = Cur,
                                                    ![Len(stack)].pc = "rbracket"],
                                      expression_frame({"]"})))
    /\ UNCHANGED <<symbol_table, output, eng>>

\* lines 661-669 with the address parked in temp 1 as in lines 378-380 and 392
compile_term_rbracket_temp ==
    /\ At("compile_term", "rbracket")
    /\ LET n == Tokenizer_next(tokenizer)
       IN  /\ tokenizer' = n.tk
           /\ IF n.raised \/ ~contains(symbol_table, Top.target_var)
              THEN output' = output /\ Raise
              ELSE /\ output' = write_push_command(
                                   write_pop_command(
                                       write_push_command(
                                           write_pop_command(
                                               write_arithmetic_command(
                                                   write_push_command(output,
                                                       get_kind(symbol_table, Top.target_var),
                                                       str(get_index(symbol_table, Top.target_var))),
                                                   "add"),
                                               TEMP_SEGMENT, str(1)),
                                           TEMP_SEGMENT, str(1)),
                                       POINTER_SEGMENT, str(1)),
                                   THAT_SEGMENT, str(0))
                   /\ Resume(Return)
    /\ UNCHANGED <<symbol_table, eng>>

\* lines 661-669 without line 667, the add of index and base
compile_term_rbracket_no_add ==
    /\ At("compile_term", "rbracket")
    /\ LET n == Tokenizer_next(tokenizer)
       IN  /\ tokenizer' = n.tk
           /\ IF n.raised \/ ~contains(symbol_table, Top.target_var)
              THEN output' = output /\ Raise
              ELSE /\ output' = write_push_command(
                                   write_pop_command(
                                       write_push_command(output,
                                           get_kind(symbol_table, Top.target_var),
                                           str(get_index(symbol_table, Top.target_var))),
                                       POINTER_SEGMENT, str(1)),
                                   THAT_SEGMENT, str(0))
                   /\ Resume(Return)
    /\ UNCHANGED <<symbol_table, eng>>

\* lines 661-669: the token is "]"
compile_term_rbracket ==
    /\ At("compile_term", "rbracket")
    /\ LET n == Tokenizer_next(tokenizer)
       IN  /\ tokenizer' = n.tk
           /\ IF n.raised \/ ~contains(symbol_table, Top.target_var)
              THEN output' = output /\ Raise
              ELSE /\ output' = write_push_command(
                                   write_pop_command(
                                       write_arithmetic_command(
                                           write_push_command(output,
                                               get_kind(symbol_table, Top.target_var),
                                               str(get_index(symbol_table, Top.target_var))),
                                           "add"),
                                       POINTER_SEGMENT, str(1)),
                                   THAT_SEGMENT, str(0))
                   /\ Resume(Return)
    /\ UNCHANGED <<symbol_table, eng>>

\* lines 671-677
compile_term_variable ==
    /\ At("compile_term", "term")
    /\ term_is_other
    /\ CurType = IDENTIFIER_TAG
    /\ \E la \in look_ahead_token(tokenizer) : ~la.raised /\ la.token[1] \notin {"(", ".", "["}
    /\ IF ~contains(symbol_table, Cur)
       THEN /\ Raise
            /\ UNCHANGED <<tokenizer, output>>
       ELSE /\ output' = write_push_command(output, get_kind(symbol_table, Cur),
                                            str(get_index(symbol_table, Cur)))
            /\ LET v == validate_type_and_advance(tokenizer, {IDENTIFIER_TAG})
               IN  /\ tokenizer' = v.tk
                   /\ IF v.raised THEN Raise ELSE Resume(Return)
    /\ UNCHANGED <<symbol_table, eng>>

(***************************************************************************)
(* _compile_subroutine_call                                                *)
(***************************************************************************)
\* lines 797-806, and lines 825-827 where no "." follows
compile_subroutine_call_name ==
    /\ At("compile_subroutine_call", "name")
    /\ LET v == validate_type_and_advance(tokenizer, {IDENTIFIER_TAG})
       IN  /\ tokenizer' = v.tk
           /\ IF v.raised THEN
                   /\ eng' = [eng EXCEPT !.current_subroutine_args = 0]
                   /\ output' = output
                   /\ Raise
              ELSE IF current_token(v.tk) = "." THEN
                   /\ eng' = [eng EXCEPT !.current_subroutine_args = 0]
                   /\ output' = output
                   /\ Resume([stack EXCEPT ![Len(stack)].name_1 = Cur,
                                           ![Len(stack)].pc = "dot"])
              ELSE /\ eng' = [eng EXCEPT !.current_subroutine_args = 1]
                   /\ output' = write_push_command(output, POINTER_SEGMENT, str(0))
                   /\ Resume([stack EXCEPT
                          ![Len(stack)].name_1 = Cur,
                          ![Len(stack)].subroutine_call_name = eng.current_class \o "." \o Cur,
                          ![Len(stack)].pc = "lparen"])
    /\ UNCHANGED symbol_table

\* lines 807-808: the token is "."
compile_subroutine_call_dot ==
    /\ At("compile_subroutine_call", "dot")
    /\ LET n == Tokenizer_next(tokenizer)
       IN  /\ tokenizer' = n.tk
           /\ IF n.raised THEN Raise ELSE Resume(Goto("name_2"))
    /\ UNCHANGED <<symbol_table, output, eng>>

\* lines 809-820
compile_subroutine_call_name_2 ==
    /\ At("compile_subroutine_call", "name_2")
    /\ LET name_1 == Top.name_1
           known  == contains(symbol_table, name_1)
           v      == validate_type_and_advance(tokenizer, {IDENTIFIER_TAG})
       IN  /\ output' = IF known
                        THEN write_push_command(output, get_kind(symbol_table, name_1),
                                                str(get_index(symbol_table, name_1)))
                        ELSE output
           /\ eng' = IF known THEN [eng EXCEPT !.current_subroutine_args = @ + 1] ELSE eng
           /\ tokenizer' = v.tk
           /\ IF v.raised THEN Raise
              ELSE Resume([stack EXCEPT
                      ![Len(stack)].subroutine_call_name =
                          (IF known THEN get_type(symbol_table, name_1) ELSE name_1)
                              \o "." \o Cur,
                      ![Len(stack)].pc = "lparen"])
    /\ UNCHANGED symbol_table

\* lines 832-833
compile_subroutine_call_lparen ==
    /\ At("compile_subroutine_call", "lparen")
    /\ LET v == validate_token_and_advance(tokenizer, {"("})
       IN  /\ tokenizer' = v.tk
           /\ IF v.raised THEN Raise
              ELSE Resume(Call("call", [fn |-> "compile_expression_list", pc |-> "loop"]))
    /\ UNCHANGED <<symbol_table, output, eng>>

\* lines 837-840: the token is ")"
compile_subroutine_call_call ==
    /\ At("compile_subroutine_call", "call")
    /\ output' = write_call_command(output, Top.subroutine_call_name,
                                    str(eng.current_subroutine_args))
    /\ LET n == Tokenizer_next(tokenizer)
       IN  /\ tokenizer' = n.tk
           /\ IF n.raised THEN Raise ELSE Resume(Return)
    /\ UNCHANGED <<symbol_table, eng>>

(***************************************************************************)
(* The programs compiled.  Each family of source texts has its own bound.  *)
(***************************************************************************)
MaxNodes == 2
MaxArgs == 2
MaxOps == 1
MaxJunk == 2

\* the blocks of statements with n if and while statements in all, and the
\* single statements with n of them, the statement itself counted
RECURSIVE Forest(_), Node(_)
Forest(n) ==
    IF n = 0 THEN {""}
    ELSE UNION {{t \o f : t \in Node(k), f \in Forest(n - k)} : k \in 1..n}

Node(n) ==
    {"if ( true ) { " \o b \o "} " : b \in Forest(n - 1)}
    \cup {"while ( true ) { " \o b \o "} " : b \in Forest(n - 1)}
    \cup UNION {{"if ( true ) { " \o b \o "} else { " \o c \o "} " :
                    b \in Forest(i), c \in Forest(n - 1 - i)} : i \in 0..(n - 1)}

\* two subroutines with at most MaxNodes if and while statements in all
ControlSources ==
    UNION {UNION {{"class A { function void f ( ) { " \o b \o "return ; } function void g ( ) { "
                      \o c \o "return ; } }" : b \in Forest(i), c \in Forest(j)} :
                  j \in 0..(MaxNodes - i)} :
           i \in 0..MaxNodes}

\* the expression lists of at most n expressions of pool, with their commas
RECURSIVE Lists(_, _)
Lists(pool, n) ==
    IF n = 0 THEN {""}
    ELSE Lists(pool, n - 1)
            \cup {e \o " " : e \in pool}
            \cup {e \o " , " \o l : e \in pool, l \in Lists(pool, n - 1) \ {""}}

ArgPool == {"1", "g ( )", "p.m ( 2 )", "B.h ( 3 , g ( ) )"}

\* a do statement whose call has at most MaxArgs arguments, in a method
CallSources ==
    {"class A { field B p ; method void f ( ) { do " \o t \o " ( " \o l \o ") ; return ; } }" :
        t \in {"g", "B.h", "p.m"}, l \in Lists(ArgPool, MaxArgs)}

TermPool ==
    {"7", "\"Hi\"", "\"a b\"", "true", "false", "null", "this", "- x", "~ x", "- - 1",
     "( x + 1 )", "( ( 2 ) )", "x", "q", "s", "b", "a [ x ]", "a [ a [ 1 ] ]", "s [ 0 ]",
     "g ( )", "a.k ( x )", "B.h ( 1 , 2 )", "zz", "zz [ 1 ]", "1_0", "32768", "x <", "( x",
     "a [ 1", "let", "x 1"}

OpTails == {"+ 1", "- x", "* 2", "/ 2", "& x", "| x", "< 3", "> 3", "= 3", "+ \"Hi\""}

\* the sequences of at most n operator-term pairs
RECURSIVE Tails(_)
Tails(n) ==
    IF n = 0 THEN {""}
    ELSE Tails(n - 1) \cup {t \o " " \o u : t \in OpTails, u \in Tails(n - 1)}

\* a let statement whose expression is a term of TermPool, or x and at most
\* MaxOps operator-term pairs
ExpressionSources ==
    {"class A { field int q ; static Array s ; function int f ( int b ) { var int x ; var Array a ; let x = "
        \o e \o " ; return x ; } }" : e \in TermPool \cup {"x " \o t : t \in Tails(MaxOps)}}

Operators == {"+", "-", "*", "/", "&", "|", "<", ">", "="}

\* a return statement whose expression has two operators and three terms
OperatorSources ==
    {"class A { function int f ( int b ) { var int x ; return x " \o o \o " 1 " \o p
        \o " b ; } }" : o \in Operators, p \in Operators}

StatementSources ==
    {"class A { field int p , q ; static B s ; constructor A new ( int a , int b ) { let p = a ; let q = b ; return this ; } method int get ( ) { return p ; } }",
     "class A { field int p ; constructor A new ( int a , int b ) { var int x ; let p = a ; return this ; } method int add ( int c , A d ) { return p + c ; } function void f ( int a ) { var int x , y ; var A z ; let z = y ; return ; } }",
     "class A { static int n ; function void f ( Array a , int i ) { var int x , y ; var B z ; let a [ i ] = x ; let a [ a [ 0 ] ] = a [ 1 ] + \"Hi\" ; do z.run ( a [ i ] , y ) ; return ; } }",
     "class A { function int f ( Array a , int i ) { var int x ; let x = a [ i ] + B.h ( x ) ; return x ; } }",
     "class A { field int p ; static int s ; method void f ( int a ) { var int x ; let p = a ; let x = s ; let s = p ; let a = x ; return ; } }",
     "class A { function void f ( Array a , int i ) { let a [ i ] = B.h ( a [ 0 ] , g ( \"s\" ) ) ; do g ( a [ 1 ] ) ; let a [ 0 ] = a [ a [ i ] ] ; return ; } }",
     "class A { function int f ( ) { var int x ; let x = \"Hi\" ; let x = \"abc\" ; do g ( \"o k\" ) ; return 1 ; } }",
     "class A { function void f ( ) { var int x ; if ( x < 1 ) { while ( ~ ( x = 0 ) ) { let x = x - 1 ; } } else { do B.h ( ) ; if ( x ) { return ; } } return ; } function int g ( int x ) { while ( x > 0 ) { if ( x & 1 ) { return x ; } else { let x = x / 2 ; } } return 0 ; } }",
     "class A{function void f(){var int x;let x[1]=2;if(x<1){do g(x,x);}return;}}",
     "class A { function void f ( ) { var int x ; let x=1 ; return ; } }",
     "class A { function void f ( ) { var int x ; let x = 1 return ; } }",
     "class A { function void f ( ) { var int x ; let y = 1 ; return ; } }",
     "class A { function void f ( ) { var int x ; let y [ 0 ] = 1 ; return ; } }",
     "class A { function void f ( ) { var int x ; let x [ 0 = 1 ; return ; } }",
     "class A { function void f ( ) { var int x ; let 7 = 1 ; return ; } }",
     "class A { function void f ( ) { return 1 ; } method int g ( ) { return ; } }",
     "class A { function void f ( ) { return 1 } }",
     "class A { function void f ( ) { do g ; } }",
     "class A { function void f ( ) { do B. ( ) ; } }",
     "class A { function void f ( ) { do 7 ( ) ; } }",
     "class A { function void f ( ) { do B.h ( ) return ; } }",
     "class A { function void f ( ) { do B.h ( 1 , , 2 , ) ; return ; } }",
     "class A { function void f ( ) { if true { } return ; } }",
     "class A { function void f ( ) { if ( true { } return ; } }",
     "class A { function void f ( ) { if ( true ) return ; } }",
     "class A { function void f ( ) { if ( true ) { } else return ; } }",
     "class A { function void f ( ) { while true { } return ; } }",
     "class A { function void f ( ) { while ( true { } return ; } }",
     "class A { function void f ( ) { while ( true ) return ; } }",
     "class A { function void f ( ) { x } }",
     "class A { function void f ( ) { return ; } } \"",
     "class \" { }"}

DeclarationSources ==
    {"class A { field int p ; field int p ; }",
     "class A { static int p , q ; field B r ; static A t ; }",
     "class A { field int p , p ; }",
     "class A { field int , p ; }",
     "class A { field int p q ; }",
     "class A { field 7 p ; }",
     "class A { field int 7 ; }",
     "class A { field int p ; function void f ( int p , int a ) { var int p ; return ; } }",
     "class A { function void f ( int a , int a ) { return ; } }",
     "class A { function void f ( int a , 7 b ) { return ; } }",
     "class A { function void f ( int a , int 7 ) { return ; } }",
     "class A { function void f ( int a ) { var int a ; return ; } }",
     "class A { function void f ( ) { var int x ; var int x ; return ; } }",
     "class A { function void f ( ) { var int x , y , z ; var B w ; return ; } }",
     "class A { method void f ( int this ) { return ; } }",
     "class A { method void f ( int a , int b ) { let a = b ; return ; } function int g ( int a ) { return a ; } }",
     "class A { function 7 f ( ) { return ; } }",
     "class A { function void 7 ( ) { return ; } }",
     "class A { function void f { return ; } }",
     "class A { function void f ( ) return ; } }",
     "class A { function void f ( ) { var 7 x ; return ; } }",
     "class A { function void f ( ) { var int 7 ; return ; } }",
     "class 7 { }",
     "class A ( }",
     "class",
     "A { }",
     ""}

\* the texts made of the first k characters of a program
TruncatedSource ==
    "class A { field int p ; method int f ( int a ) { var Array x ; let x [ a ] = - p + g ( a , \"s\" ) ; if ( a ) { do x.k ( ) ; } else { while ( ( a ) ) { } } return B.h ( ) ; } }"

TruncatedSources == {SubSeq(TruncatedSource, 1, k) : k \in 0..Len(TruncatedSource)}

JunkPool == {"let", "x", ";", "static int s ;", "function void f ( ) { return ; }"}

\* a class body of at most MaxJunk pieces that are declarations or are not
JunkSources ==
    {"class A { " \o j \o "}" : j \in Lists(JunkPool \cup {"field int p ;"}, MaxJunk)}

\* a subroutine that reads v, calls a subroutine on v and assigns to v, where v
\* is a variable of the class, a parameter, a local variable, several of these
\* or none
ScopeSources ==
    {"class A { " \o c \o k \o " void f ( " \o a \o ") { var int w ; " \o l
        \o "let w = v ; do v.m ( w ) ; let v = w ; return ; } }" :
        c \in {"", "field B v ; ", "static int u , v ; "},
        k \in {"function", "method"},
        a \in {"", "C v ", "int n , C v "},
        l \in {"", "var D v ; "}}

Sources ==
    ControlSources \cup CallSources \cup ExpressionSources \cup StatementSources
        \cup DeclarationSources \cup TruncatedSources \cup JunkSources
        \cup ScopeSources \cup OperatorSources

Init ==
    /\ \E source \in Sources : tokenizer = NewTokenizer(source)
    /\ symbol_table = SymbolTable
    /\ output = <<>>
    /\ eng = NewEngine
    /\ stack = <<>>
    /\ status = "start"

Next ==
    \/ CompilationEngine_init
    \/ compile_class_class
    \/ compile_class_name
    \/ compile_class_lbrace
    \/ compile_class_var_decs_dec
    \/ compile_class_var_decs_turn
    \/ compile_class_var_decs_end
    \/ compile_class_subroutines_dec
    \/ compile_class_subroutines_turn
    \/ compile_class_end
    \/ compile_class_var_dec
    \/ compile_subroutine_var_dec
    \/ compile_var_list_type
    \/ compile_var_list_name
    \/ compile_var_list_more
    \/ compile_subroutine_kind
    \/ compile_subroutine_return_type
    \/ compile_subroutine_name
    \/ compile_subroutine_lparen
    \/ compile_subroutine_rparen
    \/ compile_paramater_list_loop
    \/ compile_paramater_list_name
    \/ compile_subroutine_body_lbrace
    \/ compile_subroutine_body_var_dec
    \/ compile_subroutine_body_function
    \/ compile_subroutine_body_statements
    \/ compile_subroutine_body_rbrace
    \/ compile_statements
    \/ compile_do_statement_do
    \/ compile_do_statement_semicolon
    \/ compile_let_statement_let
    \/ compile_let_statement_target
    \/ compile_let_statement_lbracket
    \/ compile_let_statement_rbracket
    \/ compile_let_statement_eq
    \/ compile_let_statement_semicolon
    \/ compile_while_statement_while
    \/ compile_while_statement_lparen
    \/ compile_while_statement_rparen
    \/ compile_while_statement_lbrace
    \/ compile_while_statement_rbrace
    \/ compile_return_statement_return
    \/ compile_return_statement_semicolon
    \/ compile_if_statement_if
    \/ compile_if_statement_lparen
    \/ compile_if_statement_rparen
    \/ compile_if_statement_lbrace
    \/ compile_if_statement_rbrace
    \/ compile_if_statement_else
    \/ compile_if_statement_else_lbrace
    \/ compile_if_statement_else_rbrace
    \/ compile_expression_list
    \/ compile_expression_term
    \/ compile_expression_ops
    \/ compile_expression_write_op
    \/ compile_term_constant
    \/ compile_term_unary
    \/ compile_term_write_unary_op
    \/ compile_term_lparen
    \/ compile_term_rparen
    \/ compile_term_raise
    \/ compile_term_subroutine_call
    \/ compile_term_array
    \/ compile_term_rbracket
    \/ compile_term_variable
    \/ compile_subroutine_call_name
    \/ compile_subroutine_call_dot
    \/ compile_subroutine_call_name_2
    \/ compile_subroutine_call_lparen
    \/ compile_subroutine_call_call

Spec == Init /\ [][Next]_vars

(***************************************************************************)
(* The lexer on its own: a client builds a Tokenizer on a text and calls   *)
(* next() on it for as long as it likes.                                   *)
(***************************************************************************)
MaxPieces == 3

LexPool == {"x", "1", "32768", "9x", "=", "<", "&", " ", "\"", "\"Hi\""}

\* the texts of at most n pieces of LexPool, one after the other
RECURSIVE Pieces(_)
Pieces(n) ==
    IF n = 0 THEN {""}
    ELSE Pieces(n - 1) \cup {a \o b : a \in LexPool, b \in Pieces(n - 1)}

\* a symbol, or a quote or a colon, between an identifier and a number
SymbolInputs == {"ab" \o c \o "12" : c \in SYMBOLS \cup REGEX_PATTERN_CLASS}

LexInputs ==
    Pieces(MaxPieces) \cup SymbolInputs
        \cup {"0", "32767", "99999", "1_0", "1__0", "1_", "a>b", "a > b", "i<n", "a-b",
              "let s = \"x=1\" ;", "\"\"", "\"a\" \"b\"", "_STRING_LITERAL_", "a\tb\nc"}

LexInit ==
    /\ \E input_string \in LexInputs : tokenizer = NewTokenizer(input_string)
    /\ symbol_table = SymbolTable
    /\ output = <<>>
    /\ eng = NewEngine
    /\ stack = <<>>
    /\ status = "lex"

\* Tokenizer(input_string)
Tokenizer_new ==
    /\ status = "lex"
    /\ LET c == Tokenizer_init(tokenizer.input_string)
       IN  /\ tokenizer' = c.tk
           /\ status' = IF c.raised THEN "lex_error" ELSE "lex_ready"
    /\ UNCHANGED <<symbol_table, output, eng, stack>>

\* next() on the Tokenizer built: lex_end after a call that raised
Tokenizer_next_call ==
    /\ status \in {"lex_ready", "lex_end"}
    /\ LET n == Tokenizer_next(tokenizer)
       IN  /\ tokenizer' = n.tk
           /\ status' = IF n.raised THEN "lex_end" ELSE "lex_ready"
    /\ UNCHANGED <<symbol_table, output, eng, stack>>

LexNext ==
    \/ Tokenizer_new
    \/ Tokenizer_next_call

LexSpec == LexInit /\ [][LexNext]_vars

(***************************************************************************)
(* The claims about the engine, under Spec                                 *)
(***************************************************************************)
input_string == tokenizer.input_string

\* the lexeme of the i-th token, and the place of the current token
Lexeme(i) == tokenizer.token_type_list[i][1]

CurrentIndex == tokenizer.token_pointer[1] + 1

Lines == 1..Len(output)

\* the count of "(" less the count of ")" among the tokens lo..hi
ParenBalance(lo, hi) ==
    Cardinality({k \in lo..hi : Lexeme(k) = "("})
        - Cardinality({k \in lo..hi : Lexeme(k) = ")"})

\* the "(" that the ")" at r closes: the last "(" with balanced tokens up to r
OpeningParen(r) ==
    Last([l \in 1..r |-> Lexeme(l) = "(" /\ ParenBalance(l + 1, r - 1) = 0], 1, r - 1)

\* where the expressions of the list between l and r start: the tokens directly
\* inside the parentheses that come first or after a comma and are no comma
ExpressionStarts(l, r) ==
    {k \in (l + 1)..(r - 1) :
        /\ ParenBalance(l + 1, k - 1) = 0
        /\ Lexeme(k) # ","
        /\ k = l + 1 \/ Lexeme(k - 1) = ","}

\* the call whose "(" is at l pushes a receiver: it has a single name, or its
\* first name is a variable
ReceiverPushed(l) ==
    IF l > 3 /\ Lexeme(l - 2) = "." THEN contains(symbol_table, Lexeme(l - 3)) ELSE TRUE

\* C1: the call command written at the ")" of a call site carries the number of
\* expressions of that call's own list, plus one when a receiver was pushed
C1_ArgCount ==
    [][compile_subroutine_call_call =>
          LET l == OpeningParen(CurrentIndex)
          IN  /\ output'[Len(output')][1] = "call"
              /\ output'[Len(output')][3] =
                    str(Cardinality(ExpressionStarts(l, CurrentIndex))
                            + (IF ReceiverPushed(l) THEN 1 ELSE 0))]_vars

\* C2: the step that enters a subroutine declaration leaves both label counters at 0
C2_CountersReset ==
    [][compile_subroutine_kind =>
          eng'.current_index_if = 0 /\ eng'.current_index_while = 0]_vars

\* the line of the function command of the subroutine that line i belongs to
SubroutineOf(i) == Last([k \in Lines |-> output[k][1] = "function"], 1, i)

\* the lines of the subroutine that starts at line f that are <<head, label>>
LinesOf(f, head, label) ==
    {j \in Lines : output[j] = <<head, label>> /\ SubroutineOf(j) = f}

Jumps(f, label) ==
    <<Cardinality(LinesOf(f, "if-goto", label)), Cardinality(LinesOf(f, "goto", label))>>

\* C3: in a compiled class every label is written once in its subroutine, and
\* it is the target of the jumps of its statement: the first label of an if of
\* one if-goto, the second of one goto, the first label of a while of one goto,
\* the second of one if-goto, and of no other jump of that subroutine
C3_Labels ==
    status = "done" =>
        \A i \in Lines :
            output[i][1] = "label" =>
                LET f == SubroutineOf(i)
                    label == output[i][2]
                IN  /\ LinesOf(f, "label", label) = {i}
                    /\ \E n \in 0..Len(output) :
                          \/ /\ label = output[f][2] \o "If" \o str(n)
                             /\ Jumps(f, label) = IF n % 2 = 0 THEN <<1, 0>> ELSE <<0, 1>>
                          \/ /\ label = output[f][2] \o "While" \o str(n)
                             /\ Jumps(f, label) = IF n % 2 = 0 THEN <<0, 1>> ELSE <<1, 0>>

\* a class is compiled in which a while statement stands in the first block of an if
C3_Witness ==
    /\ status = "done"
    /\ \E i, j, k \in Lines :
          /\ i < j /\ j < k
          /\ output[i] = <<"if-goto", "A.fIf0">>
          /\ output[j] = <<"label", "A.fWhile0">>
          /\ output[k] = <<"goto", "A.fIf1">>

\* the string literals of the source text, in order, without their quotes
SourceLiterals ==
    LET found == findall_string_literal(input_string, 1)
    IN  [k \in 1..Len(found) |-> SubSeq(found[k], 2, Len(found[k]) - 1)]

\* the body in the source text of the string constant that is the current token
CurrentLiteral ==
    SourceLiterals[Cardinality({k \in 1..CurrentIndex :
                                   tokenizer.token_type_list[k][2] = STRING_CONSTANT_TAG})]

\* the instructions that build a string: its length, String.new, and its
\* characters' codes in order, each with String.appendChar
StringCode(body) ==
    [i \in 1..(2 * Len(body) + 2) |->
        IF i = 1 THEN <<"push", "constant", str(Len(body))>>
        ELSE IF i = 2 THEN <<"call", "String.new", "1">>
        ELSE IF i % 2 = 1 THEN <<"push", "constant", str(ord(Ch(body, (i - 1) \div 2)))>>
        ELSE <<"call", "String.appendChar", "2">>]

IsInstruction(line) == line[1] # "//"

\* C4: the instructions written for a string constant term are those of the
\* body of its literal in the source text
C4_StringConstant ==
    [][(compile_term_constant /\ CurType = STRING_CONSTANT_TAG) =>
          SelectSeq(SubSeq(output', Len(output) + 1, Len(output')), IsInstruction)
              = StringCode(CurrentLiteral)]_vars

VMSegments == {"argument", "local", "static", "constant", "this", "that", "pointer", "temp"}

Opcodes == {"add", "sub", "neg", "eq", "gt", "lt", "and", "or", "not"}

IsCount(text) == Len(text) > 0 /\ \A i \in 1..Len(text) : isdigit(Ch(text, i))

\* a line of one of the instruction forms; the index of a push of the constant
\* segment is the text of an integer token or a count
InstructionForm(line) ==
    \/ /\ Len(line) = 3
       /\ line[1] \in {"push", "pop"}
       /\ line[2] \in VMSegments
       /\ IsCount(line[3]) \/ (line[1] = "push" /\ line[2] = "constant")
    \/ Len(line) = 1 /\ line[1] \in Opcodes \cup {"return"}
    \/ Len(line) = 2 /\ line[1] \in {"label", "goto", "if-goto"}
    \/ Len(line) = 3 /\ line[1] \in {"call", "function"} /\ IsCount(line[3])

CommentLine(line) == Len(line) = 2 /\ line[1] = "//"

Unterminated(text) ==
    Cardinality({i \in 1..Len(text) : Ch(text, i) = "\""}) % 2 = 1

\* C9: of a source text that is empty or has an unterminated string literal no
\* class is compiled, and no token of it is the quote
C9_Rejected ==
    (input_string = "" \/ Unterminated(input_string)) =>
        /\ status # "done"
        /\ \A i \in 1..Len(tokenizer.token_type_list) : Lexeme(i) # "\""

\* C10: while the engine runs it can take a step that changes its state
C10_Progress == status = "running" => ENABLED <<Next>>_vars

(***************************************************************************)
(* The claims about the lexer, under LexSpec                               *)
(***************************************************************************)
Tokens == 1..Len(tokenizer.token_type_list)

TokenType(i) == tokenizer.token_type_list[i][2]

Display(i) == tokenizer.token_type_list[i][3]

\* the i-th token as the source has it
Raw(i) == tokenizer.tokens[i]

\* C6, as the claim states it: the lexeme of every symbol token is the glyph of
\* the source
C6_RawLexeme ==
    status = "lex_ready" =>
        \A i \in Tokens : TokenType(i) = SYMBOL_TAG => Lexeme(i) = Raw(i)

\* C6, amended: the lexeme of a symbol token is the glyph of the source, but for
\* "<", ">" and "&" it is "&lt;", "&gt;" and "&amp;", and the display form
\* carries the lexeme
C6_EscapedLexeme ==
    status = "lex_ready" =>
        \A i \in Tokens :
            TokenType(i) = SYMBOL_TAG =>
                /\ Raw(i) = "<" => Lexeme(i) = "&lt;"
                /\ Raw(i) = ">" => Lexeme(i) = "&gt;"
                /\ Raw(i) = "&" => Lexeme(i) = "&amp;"
                /\ Raw(i) \notin {"<", ">", "&"} => Lexeme(i) = Raw(i)
                /\ Display(i) = "<symbol> " \o Lexeme(i) \o " </symbol>"

\* a text is lexed that has "<", "&" and another symbol
C6_Witness ==
    /\ status = "lex_ready"
    /\ \E i, j, k \in Tokens :
          /\ TokenType(i) = SYMBOL_TAG /\ Raw(i) = "<"
          /\ TokenType(j) = SYMBOL_TAG /\ Raw(j) = "&"
          /\ TokenType(k) = SYMBOL_TAG /\ Raw(k) = "="

\* C7: a symbol written between an identifier and a number with no whitespace
\* is lexed as a token of its own
C7_SymbolsSplit ==
    \A c \in SYMBOLS :
        (status # "lex" /\ input_string = "ab" \o c \o "12") =>
            /\ status # "lex_error"
            /\ tokenizer.tokens = <<"ab", c, "12">>
            /\ TokenType(2) = SYMBOL_TAG

\* the text without the zeros it starts with
Significant(text) ==
    SubSeq(text, First([i \in 1..Len(text) |-> Ch(text, i) # "0"], 1, Len(text)),
           Len(text))

RECURSIVE DecimalValue(_)
DecimalValue(text) ==
    IF text = "" THEN 0
    ELSE 10 * DecimalValue(SubSeq(text, 1, Len(text) - 1))
            + (ord(Ch(text, Len(text))) - ord("0"))

\* the text is that of an integer of 0..32767
InRange(text) ==
    /\ IsCount(text)
    /\ Len(Significant(text)) <= Len(str(32767))
    /\ DecimalValue(Significant(text)) <= 32767

\* C8: when a text is lexed, each of its tokens that starts with a digit is the
\* text of an integer of 0..32767
C8_IntegerRange ==
    status = "lex_ready" =>
        \A i \in Tokens : isdigit(Ch(Raw(i), 1)) => InRange(Raw(i))

(***************************************************************************)
(* The symbol table on its own: rows are added to its two tables and the   *)
(* subroutine table is renewed, in any order                               *)
(***************************************************************************)
MaxRows == 3

Names == {"x", "y", "z"}

Kinds == {STATIC_KIND, FIELD_KIND, ARG_KIND, LOCAL_KIND}

TableInit ==
    /\ tokenizer = NewTokenizer("")
    /\ symbol_table = SymbolTable
    /\ output = <<>>
    /\ eng = NewEngine
    /\ stack = <<>>
    /\ status = "table"

\* _add_var_to_symbol_table(name, identifier_type, kind, DECLARING, is_class_var),
\* the caller catching what it raises
SymbolTable_define(name, identifier_type, kind, is_class_var) ==
    /\ status \in {"table", "table_error", "table_new"}
    /\ Len(symbol_table.class_table.table) + Len(symbol_table.subroutine_table.table) < MaxRows
    /\ LET r == add_var_to_symbol_table(symbol_table, name, identifier_type, kind,
                                        DECLARING, is_class_var)
       IN  /\ symbol_table' = r.st
           /\ status' = IF r.raised THEN "table_error" ELSE "table"
    /\ UNCHANGED <<tokenizer, output, eng, stack>>

\* new_subroutine()
SymbolTable_new_subroutine ==
    /\ status \in {"table", "table_error", "table_new"}
    /\ symbol_table' = new_subroutine(symbol_table)
    /\ status' = "table_new"
    /\ UNCHANGED <<tokenizer, output, eng, stack>>

TableNext ==
    \/ \E name \in Names, kind \in Kinds, is_class_var \in BOOLEAN :
          SymbolTable_define(name, "int", kind, is_class_var)
    \/ SymbolTable_new_subroutine

TableSpec == TableInit /\ [][TableNext]_vars

(***************************************************************************)
(* The claims about the symbol table, under TableSpec                      *)
(***************************************************************************)
Scopes == {symbol_table.class_table, symbol_table.subroutine_table}

\* the rows of a kind in a table, in the order they were added
KindRows(t, kind) ==
    LET OfKind(row) == row.kind = kind
    IN  SelectSeq(t.table, OfKind)

\* C11: in each table the rows of each kind are numbered 0, 1, ... in the order
\* they were added, and the number of field variables of the class is the
\* number of its rows of kind field
C11_Slots ==
    /\ \A t \in Scopes, kind \in Kinds :
          \A i \in 1..Len(KindRows(t, kind)) :
              KindRows(t, kind)[i].identifier_number = <<i - 1>>
    /\ get_num_class_fields(symbol_table)
          = Len(KindRows(symbol_table.class_table, FIELD_KIND))

\* the class table has two fields with a static added between them
C11_Witness ==
    LET t == symbol_table.class_table.table
    IN  /\ Len(t) = 3
        /\ t[1].kind = FIELD_KIND /\ t[2].kind = STATIC_KIND /\ t[3].kind = FIELD_KIND

\* the table of the scope that _add_var_to_symbol_table adds to
Scope(st, is_class_var) == IF is_class_var THEN st.class_table ELSE st.subroutine_table

\* C12: adding a name its scope holds raises and changes nothing; adding a
\* name its scope does not hold succeeds, the other scope holding it or not:
\* the row is the last of its scope and the other scope is as it was
C12_Duplicate ==
    [][\A name \in Names, kind \in Kinds, is_class_var \in BOOLEAN :
          SymbolTable_define(name, "int", kind, is_class_var) =>
              IF \E i \in 1..Len(Scope(symbol_table, is_class_var).table) :
                     Scope(symbol_table, is_class_var).table[i].name = name
              THEN status' = "table_error" /\ symbol_table' = symbol_table
              ELSE /\ status' = "table"
                   /\ Len(Scope(symbol_table', is_class_var).table)
                         = Len(Scope(symbol_table, is_class_var).table) + 1
                   /\ SubSeq(Scope(symbol_table', is_class_var).table, 1,
                             Len(Scope(symbol_table, is_class_var).table))
                         = Scope(symbol_table, is_class_var).table
                   /\ Scope(symbol_table', is_class_var).table[
                         Len(Scope(symbol_table', is_class_var).table)].name = name
                   /\ Scope(symbol_table', ~is_class_var) = Scope(symbol_table, ~is_class_var)]_vars

\* a name that both scopes hold, after an addition was rejected
C12_Witness ==
    /\ status = "table_error"
    /\ \E name \in Names :
          /\ SingleTable_contains(symbol_table.class_table, name)
          /\ SingleTable_contains(symbol_table.subroutine_table, name)

(***************************************************************************)
(* The claims about the scopes and the subroutines, under Spec             *)
(***************************************************************************)
\* the name is that of a row of the table
Defined(t, name) == \E i \in 1..Len(t.table) : t.table[i].name = name

\* the row of a name defined in the table
EntryOf(t, name) == t.table[CHOOSE i \in 1..Len(t.table) : t.table[i].name = name]

\* the row of the subroutine scope where the name is defined there, else that
\* of the class scope
Resolved(name) ==
    IF Defined(symbol_table.subroutine_table, name)
    THEN EntryOf(symbol_table.subroutine_table, name)
    ELSE EntryOf(symbol_table.class_table, name)

InScope(name) ==
    Defined(symbol_table.subroutine_table, name) \/ Defined(symbol_table.class_table, name)

SegmentOfKind(kind) ==
    CASE kind = STATIC_KIND -> "static"
      [] kind = FIELD_KIND -> "this"
      [] kind = ARG_KIND -> "argument"
      [] kind = LOCAL_KIND -> "local"

PushOf(row) == <<"push", SegmentOfKind(row.kind), str(row.identifier_number[1])>>

\* C13: a variable read as a term is pushed from the segment and index of its
\* row of the subroutine scope where it is defined there, else of its row of
\* the class scope, and raises where it is in neither; the receiver of a call
\* on a variable is pushed in the same way and the call is to the type of that row
C13_Lookup ==
    [][/\ compile_term_variable =>
              IF InScope(Cur) THEN output' = Append(output, PushOf(Resolved(Cur)))
              ELSE status' = "error" /\ output' = output
       /\ (compile_subroutine_call_name_2 /\ InScope(Top.name_1)) =>
              /\ output' = Append(output, PushOf(Resolved(Top.name_1)))
              /\ status' = "running" =>
                    stack'[Len(stack')].subroutine_call_name
                        = Resolved(Top.name_1).identifier_type \o "." \o Cur]_vars

\* in a class that has a field v, a call on the local variable v is written
C13_Witness ==
    /\ Defined(symbol_table.class_table, "v")
    /\ EntryOf(symbol_table.class_table, "v").kind = FIELD_KIND
    /\ \E i \in Lines : /\ i + 2 <= Len(output)
                         /\ output[i] = <<"push", "local", "1">>
                         /\ output[i + 1] = <<"push", "local", "0">>
                         /\ output[i + 2] = <<"call", "D.m", "2">>

\* the parameter list that ends at the current token ")": its tokens but the
\* commas, a type and a name for each parameter
ParameterTokens ==
    LET r == CurrentIndex
        l == Last([k \in 1..r |-> Lexeme(k) = "("], 1, r - 1)
        NotComma(token) == token # ","
    IN  SelectSeq([k \in 1..(r - l - 1) |-> Lexeme(l + k)], NotComma)

\* C14: when the parameter list of a subroutine declaration has been compiled
\* the subroutine scope holds, for a method, this of the type of the class in
\* arg slot 0, and then the parameters in the order they are declared in the
\* arg slots that follow, from 0 for a function or a constructor, and nothing else
C14_SubroutineScope ==
    At("compile_subroutine", "rparen") =>
        LET t == symbol_table.subroutine_table.table
            base == IF eng.current_subroutine_type = "method" THEN 1 ELSE 0
            n == Len(ParameterTokens) \div 2
        IN  /\ Len(t) = base + n
            /\ base = 1 =>
                   /\ t[1].name = "this"
                   /\ t[1].identifier_type = eng.current_class
                   /\ t[1].kind = ARG_KIND
                   /\ t[1].identifier_number = <<0>>
            /\ \A i \in 1..n :
                   /\ t[base + i].name = ParameterTokens[2 * i]
                   /\ t[base + i].identifier_type = ParameterTokens[2 * i - 1]
                   /\ t[base + i].kind = ARG_KIND
                   /\ t[base + i].identifier_number = <<base + i - 1>>

\* the parameter list of a method of two parameters is compiled, after a
\* constructor with parameters of other names
C14_Witness ==
    /\ At("compile_subroutine", "rparen")
    /\ eng.current_subroutine_type = "method"
    /\ Len(ParameterTokens) = 4
    /\ \E i \in Lines : output[i][1] = "function"

\* the var declarations that end before the current token: the tokens after
\* the "{" of the subroutine body
VarDecTokens ==
    (Last([k \in 1..CurrentIndex |-> Lexeme(k) = "{"], 1, CurrentIndex - 1) + 1)
        ..(CurrentIndex - 1)

\* each of the declarations starts with var
StartWithVar == \A k \in VarDecTokens : Lexeme(k - 1) \in {"{", ";"} => Lexeme(k) = "var"

\* the names declared: the identifiers that are not the type of a declaration
DeclaredNames ==
    {k \in VarDecTokens :
        /\ TokenType(k) = IDENTIFIER_TAG
        /\ ~(Lexeme(k - 1) = "var" /\ Lexeme(k - 2) \in {"{", ";"})}

\* the instructions that read or write local i
LocalLines == {i \in Lines : Len(output[i]) = 3 /\ output[i][1] \in {"push", "pop"}
                                                /\ output[i][2] = "local"}

\* C15: the function command of a subroutine is written when its var
\* declarations are compiled and before anything of its body, with the number
\* of the local entries of the subroutine scope, which is the number of names
\* its var declarations declare; and every local i of an instruction is one of
\* the locals 0..k-1 of the function command before it
C15_LocalCount ==
    /\ [][compile_subroutine_body_function =>
             /\ output'[Len(output) + 1] =
                   <<"function", eng.current_class \o "." \o eng.current_subroutine_name,
                     str(Len(KindRows(symbol_table.subroutine_table, LOCAL_KIND)))>>
             /\ StartWithVar =>
                   Len(KindRows(symbol_table.subroutine_table, LOCAL_KIND))
                       = Cardinality(DeclaredNames)
             /\ output = <<>> \/ output[Len(output)][1] = "//"]_vars
    /\ [](\A i \in LocalLines :
             /\ SubroutineOf(i) > 0
             /\ IsCount(output[i][3])
             /\ DecimalValue(output[i][3]) < DecimalValue(output[SubroutineOf(i)][3]))

\* a class is compiled with a function of three locals that writes one of
\* them, after a subroutine with another number of locals
C15_Witness ==
    /\ status = "done"
    /\ \E f, g, i \in Lines :
          /\ f < g /\ g < i
          /\ output[f] = <<"function", "A.new", "1">>
          /\ output[g] = <<"function", "A.f", "3">>
          /\ output[i] = <<"pop", "local", "2">>

\* what a subroutine writes between its function command and its statements
Prologue(subroutine_type) ==
    CASE subroutine_type = "method" ->
            <<<<"push", "argument", "0">>, <<"pop", "pointer", "0">>>>
      [] subroutine_type = "constructor" ->
            <<<<"push", "constant",
                str(Len(KindRows(symbol_table.class_table, FIELD_KIND)))>>,
              <<"call", "Memory.alloc", "1">>, <<"pop", "pointer", "0">>>>
      [] subroutine_type = "function" -> <<>>

\* C16: the step that writes the function command of a subroutine writes after
\* it push argument 0, pop pointer 0 for a method; push constant n, call
\* Memory.alloc 1, pop pointer 0 for a constructor, n the number of the fields
\* of the class; and nothing for a function
C16_Prologue ==
    [][compile_subroutine_body_function =>
          /\ output'[Len(output) + 1][1] = "function"
          /\ SubSeq(output', Len(output) + 2, Len(output'))
                = Prologue(eng.current_subroutine_type)]_vars

\* a class with two fields and a static is compiled, with a constructor and a method
C16_Witness ==
    /\ status = "done"
    /\ Len(KindRows(symbol_table.class_table, STATIC_KIND)) = 1
    /\ \E i, j \in Lines :
          /\ i + 3 < j /\ j + 2 <= Len(output)
          /\ output[i][1] = "function"
          /\ output[i + 1] = <<"push", "constant", "2">>
          /\ output[i + 2] = <<"call", "Memory.alloc", "1">>
          /\ output[i + 3] = <<"pop", "pointer", "0">>
          /\ output[j][1] = "function"
          /\ output[j + 1] = <<"push", "argument", "0">>
          /\ output[j + 2] = <<"pop", "pointer", "0">>

\* the return statement that ends at the current token ";" has an expression
ReturnsExpression == Lexeme(CurrentIndex - 1) # "return"

\* C17: at the ";" of a return statement with an expression only return is
\* written, after the code of the expression; with no expression, push
\* constant 0 is written before return in a subroutine of type void, and only
\* return in another
C17_Return ==
    [][(compile_return_statement_semicolon /\ status' = "running") =>
          output' = IF ~ReturnsExpression /\ eng.current_subroutine_return_type = "void"
                    THEN output \o <<<<"push", "constant", "0">>, <<"return">>>>
                    ELSE Append(output, <<"return">>)]_vars

\* the target of the call whose "(" is the token at l
CallTarget(l) ==
    IF l > 3 /\ Lexeme(l - 2) = "."
    THEN (IF InScope(Lexeme(l - 3)) THEN Resolved(Lexeme(l - 3)).identifier_type
          ELSE Lexeme(l - 3)) \o "." \o Lexeme(l - 1)
    ELSE eng.current_class \o "." \o Lexeme(l - 1)

\* C18: a call of one name pushes pointer 0 when its name is read and is to
\* that name in the current class; a call name1.name2 pushes name1 when name2
\* is read where name1 is a variable, and is then to name2 in the type of
\* name1, and pushes nothing where it is none, and is then to name1.name2.
\* Both steps come before the "(" of the call, and so before its arguments
C18_Dispatch ==
    [][/\ (compile_subroutine_call_name /\ status' = "running") =>
              output' = IF current_token(tokenizer') = "." THEN output
                        ELSE Append(output, <<"push", "pointer", "0">>)
       /\ compile_subroutine_call_name_2 =>
              /\ Lexeme(CurrentIndex - 1) = "."
              /\ output' = IF InScope(Lexeme(CurrentIndex - 2))
                           THEN Append(output, PushOf(Resolved(Lexeme(CurrentIndex - 2))))
                           ELSE output
       /\ compile_subroutine_call_lparen => output' = output
       /\ compile_subroutine_call_call =>
              /\ Len(output') = Len(output) + 1
              /\ output'[Len(output')][1] = "call"
              /\ output'[Len(output')][2] = CallTarget(OpeningParen(CurrentIndex))]_vars

\* a class is compiled with a call on the field p of type B that has a call
\* of one name and a call on the class B in its arguments
C18_Witness ==
    /\ status = "done"
    /\ \E i \in Lines :
          /\ i + 2 <= Len(output)
          /\ output[i] = <<"push", "this", "0">>
          /\ output[i + 1] = <<"push", "pointer", "0">>
          /\ output[i + 2][1] = "call" /\ output[i + 2][2] = "A.g"
    /\ \E k \in Lines : output[k][1] = "call" /\ output[k][2] = "B.h"
    /\ \E n \in Lines : output[n][1] = "call" /\ output[n][2] = "B.m"

(***************************************************************************)
(* The claims about the cursor of the lexer, under LexSpec and Spec        *)
(***************************************************************************)
\* the number of the token the cursor is at: 0 before the first token
Position == IF tokenizer.token_pointer = <<>> THEN 0 ELSE tokenizer.token_pointer[1] + 1

\* C19: a lexer just built has no current token; an advance with tokens left
\* after the cursor moves the cursor by one and makes that token current, its
\* lexeme, its category and its display form; an advance with none left raises
\* and leaves the cursor at the last token, which stays current
C19_Cursor ==
    [][/\ (Tokenizer_new /\ status' = "lex_ready") =>
              /\ tokenizer'.token_pointer = <<>>
              /\ tokenizer'.current_token = <<>>
              /\ tokenizer'.current_type = <<>>
              /\ tokenizer'.current_xml = <<>>
       /\ Tokenizer_next_call =>
              /\ tokenizer'.token_type_list = tokenizer.token_type_list
              /\ IF Position < Len(tokenizer.token_type_list)
                 THEN /\ status' = "lex_ready"
                      /\ tokenizer'.token_pointer = <<Position>>
                      /\ <<tokenizer'.current_token[1], tokenizer'.current_type[1],
                           tokenizer'.current_xml[1]>>
                            = tokenizer.token_type_list[Position + 1]
                 ELSE /\ status' = "lex_end"
                      /\ tokenizer'.token_pointer = <<Len(tokenizer.token_type_list) - 1>>
                      /\ tokenizer'.current_token = tokenizer.current_token
                      /\ tokenizer'.current_type = tokenizer.current_type
                      /\ tokenizer'.current_xml = tokenizer.current_xml]_vars

\* an advance has raised with the last of three tokens current
C19_Witness ==
    /\ status = "lex_end"
    /\ Len(tokenizer.token_type_list) = 3
    /\ tokenizer.token_pointer = <<2>>
    /\ tokenizer.current_token = <<tokenizer.token_type_list[3][1]>>

\* the lexeme one past the current token, or <<>> at the end of the stream
NextLexeme ==
    IF CurrentIndex < Len(tokenizer.token_type_list) THEN <<Lexeme(CurrentIndex + 1)>>
    ELSE <<>>

OperatorInstruction(operator) ==
    CASE operator = "+" -> <<"add">>
      [] operator = "-" -> <<"sub">>
      [] operator = "&amp;" -> <<"and">>
      [] operator = "|" -> <<"or">>
      [] operator = "&lt;" -> <<"lt">>
      [] operator = "&gt;" -> <<"gt">>
      [] operator = "=" -> <<"eq">>
      [] operator = "*" -> <<"call", "Math.multiply", "2">>
      [] operator = "/" -> <<"call", "Math.divide", "2">>

OperatorLexemes == {"+", "-", "&amp;", "|", "&lt;", "&gt;", "=", "*", "/"}

\* the token at k is an integer or a variable in scope, read as it is
SimpleTerm(k) ==
    \/ TokenType(k) = INTEGER_CONSTANT_TAG
    \/ TokenType(k) = IDENTIFIER_TAG /\ InScope(Lexeme(k))

SimpleCode(k) ==
    IF TokenType(k) = INTEGER_CONSTANT_TAG THEN <<"push", "constant", Lexeme(k)>>
    ELSE PushOf(Resolved(Lexeme(k)))

\* the return statements "return t0 op1 t1 op2 t2 ;" of simple terms in the
\* last subroutine of the class, by the place of their return
FlatReturns ==
    {r \in Tokens :
        /\ r + 6 <= Len(tokenizer.token_type_list)
        /\ Lexeme(r) = "return" /\ Lexeme(r + 6) = ";"
        /\ \A k \in {r + 1, r + 3, r + 5} : SimpleTerm(k)
        /\ \A k \in {r + 2, r + 4} : Lexeme(k) \in OperatorLexemes
        /\ \A k \in (r + 1)..Len(tokenizer.token_type_list) :
                Lexeme(k) \notin {"function", "method", "constructor"}}

\* C21: reading an operator writes nothing, the instruction of the operator is
\* written when its right-hand term is compiled, and the code of a compiled
\* "return t0 op1 t1 op2 t2 ;" is code(t0), code(t1), instr(op1), code(t2),
\* instr(op2), return
C21_LeftToRight ==
    /\ [][/\ compile_expression_ops => output' = output
          /\ compile_expression_write_op =>
                /\ Top.operator \in OperatorLexemes
                /\ output' = Append(output, OperatorInstruction(Top.operator))]_vars
    /\ [](status = "done" =>
            \A r \in FlatReturns :
                /\ Len(output) >= 6
                /\ SubSeq(output, Len(output) - 5, Len(output))
                    = <<SimpleCode(r + 1), SimpleCode(r + 3),
                        OperatorInstruction(Lexeme(r + 2)),
                        SimpleCode(r + 5), OperatorInstruction(Lexeme(r + 4)),
                        <<"return">> >>)

\* "return x + 1 * b ;" is compiled with the sum multiplied
C21_Witness ==
    /\ status = "done"
    /\ FlatReturns # {}
    /\ Len(output) >= 6
    /\ SubSeq(output, Len(output) - 5, Len(output))
        = << <<"push", "local", "0">>, <<"push", "constant", "1">>, <<"add">>,
             <<"push", "argument", "0">>, <<"call", "Math.multiply", "2">>, <<"return">> >>

\* the name after the let of the statement being compiled
TargetName == Top.target_var

\* the array assignment "let a [ t ] = u ;" of simple terms ends at the current token
FlatArrayLet ==
    /\ CurrentIndex > 7
    /\ Lexeme(CurrentIndex - 7) = "let"
    /\ Lexeme(CurrentIndex - 5) = "["
    /\ SimpleTerm(CurrentIndex - 4)
    /\ Lexeme(CurrentIndex - 3) = "]"
    /\ Lexeme(CurrentIndex - 2) = "="
    /\ SimpleTerm(CurrentIndex - 1)
    /\ Lexeme(CurrentIndex) = ";"

\* C22: in "let a [ i ] = e ;" nothing is written at the "[" and at the "=";
\* the push of a, add and pop temp 1 are written at the "]", after the code
\* of i; push temp 1, pop pointer 1 and pop that 0 are written at the ";",
\* after the code of e; for simple i and e the eight lines are the whole code
C22_ArrayLet ==
    [][/\ compile_let_statement_lbracket => output' = output
       /\ (compile_let_statement_rbracket /\ status' = "running") =>
              output' = output \o <<PushOf(Resolved(TargetName)), <<"add">>,
                                    <<"pop", "temp", "1">> >>
       /\ (compile_let_statement_eq /\ Top.is_array) => output' = output
       /\ (compile_let_statement_semicolon /\ Top.is_array /\ status' = "running") =>
              /\ output' = output \o << <<"push", "temp", "1">>, <<"pop", "pointer", "1">>,
                                        <<"pop", "that", "0">> >>
              /\ FlatArrayLet =>
                    /\ Len(output') >= 8
                    /\ SubSeq(output', Len(output') - 7, Len(output'))
                        = <<SimpleCode(CurrentIndex - 4),
                            PushOf(Resolved(Lexeme(CurrentIndex - 6))),
                            <<"add">>, <<"pop", "temp", "1">>,
                            SimpleCode(CurrentIndex - 1),
                            <<"push", "temp", "1">>, <<"pop", "pointer", "1">>,
                            <<"pop", "that", "0">> >>]_vars

\* "let a [ i ] = x ;" is compiled, a and i parameters and x a local
C22_Witness ==
    \E i \in Lines :
        /\ i + 7 <= Len(output)
        /\ SubSeq(output, i, i + 7)
            = << <<"push", "argument", "1">>, <<"push", "argument", "0">>, <<"add">>,
                 <<"pop", "temp", "1">>, <<"push", "local", "0">>,
                 <<"push", "temp", "1">>, <<"pop", "pointer", "1">>, <<"pop", "that", "0">> >>

\* the pop into the segment and index of a row
PopOf(row) == <<"pop", SegmentOfKind(row.kind), str(row.identifier_number[1])>>

\* the assignment "let n = t ;" of a simple term ends at the current token
FlatLet ==
    /\ CurrentIndex > 4
    /\ Lexeme(CurrentIndex - 4) = "let"
    /\ Lexeme(CurrentIndex - 2) = "="
    /\ SimpleTerm(CurrentIndex - 1)
    /\ Lexeme(CurrentIndex) = ";"

\* C23: a variable read writes the push of the row found for the name, the
\* subroutine scope first, and "let name = e ;" writes at its ";", after the
\* code of e, the pop of the row found for name; static rows are in static,
\* field rows in this, arg rows in argument and local rows in local; a name
\* in neither scope ends the compilation with an error and writes nothing
C23_Variable ==
    [][/\ compile_term_variable =>
              IF InScope(Cur)
              THEN output' = Append(output, PushOf(Resolved(Cur)))
              ELSE status' = "error" /\ output' = output
       /\ (compile_let_statement_eq /\ ~Top.is_array) => output' = output
       /\ (compile_let_statement_semicolon /\ ~Top.is_array /\ Cur = ";") =>
              IF InScope(TargetName)
              THEN /\ status' = "running"
                   /\ output' = Append(output, PopOf(Resolved(TargetName)))
                   /\ FlatLet =>
                        /\ Len(output') >= 2
                        /\ SubSeq(output', Len(output') - 1, Len(output'))
                            = <<SimpleCode(CurrentIndex - 1),
                                PopOf(Resolved(Lexeme(CurrentIndex - 3)))>>
              ELSE status' = "error" /\ output' = output]_vars

\* a field is assigned from a parameter, a local from a static variable, the
\* static variable from the field and the parameter from the local
C23_Witness ==
    \E i \in Lines :
        /\ i + 7 <= Len(output)
        /\ SubSeq(output, i, i + 7)
            = << <<"push", "argument", "1">>, <<"pop", "this", "0">>,
                 <<"push", "static", "0">>, <<"pop", "local", "0">>,
                 <<"push", "this", "0">>, <<"pop", "static", "0">>,
                 <<"push", "local", "0">>, <<"pop", "argument", "1">> >>

\* the place where a statement of two labels starts
fn_first_pc(fn) == IF fn = "compile_if_statement" THEN "if" ELSE "while"

\* the frames of fn that a step keeps keep their two labels
LabelsKept(fn) ==
    \A d \in 1..Len(stack) :
        (stack[d].fn = fn /\ stack[d].pc # fn_first_pc(fn) /\ Len(stack') >= d) =>
            /\ stack'[d].fn = fn
            /\ stack'[d].l1 = stack[d].l1
            /\ stack'[d].l2 = stack[d].l2

\* the label is a label of an if statement of the subroutine that starts at line f
IsIfLabel(f, label) ==
    \E n \in 0..Len(output) : label = output[f][2] \o "If" \o str(n)

\* C24: an if statement writes nothing before the code of its condition; at
\* the ")" it writes not and if-goto L1; at the "}" of its first block goto L2
\* and label L1, and label L2 as well where no else follows; nothing at else
\* and its "{"; label L2 at the "}" of the else block; L1 and L2 differ and
\* stay the labels of the statement.  In a compiled class each if-goto of an
\* if statement follows a not, and is followed by goto L2, label L1 and later
\* label L2, at once where the class has no else
C24_If ==
    /\ [][/\ compile_if_statement_if => output' = output
          /\ compile_if_statement_lparen => output' = output
          /\ (compile_if_statement_rparen /\ status' = "running") =>
                /\ Top.l1 # Top.l2
                /\ output' = output \o << <<"not">>, <<"if-goto", Top.l1>> >>
          /\ compile_if_statement_lbrace => output' = output
          /\ (compile_if_statement_rbrace /\ status' = "running") =>
                output' = output \o
                    (IF current_token(tokenizer') = "else"
                     THEN << <<"goto", Top.l2>>, <<"label", Top.l1>> >>
                     ELSE << <<"goto", Top.l2>>, <<"label", Top.l1>>, <<"label", Top.l2>> >>)
          /\ compile_if_statement_else => output' = output
          /\ compile_if_statement_else_lbrace => output' = output
          /\ (compile_if_statement_else_rbrace /\ status' = "running") =>
                output' = Append(output, <<"label", Top.l2>>)
          /\ status = "running" => LabelsKept("compile_if_statement")]_vars
    /\ [](status = "done" =>
            \A i \in Lines :
                (output[i][1] = "if-goto" /\ IsIfLabel(SubroutineOf(i), output[i][2])) =>
                    /\ i > 1 /\ output[i - 1] = <<"not">>
                    /\ \E j \in (i + 1)..(Len(output) - 2) :
                          /\ output[j][1] = "goto"
                          /\ output[j][2] # output[i][2]
                          /\ output[j + 1] = <<"label", output[i][2]>>
                          /\ \E k \in (j + 2)..Len(output) :
                                /\ output[k] = <<"label", output[j][2]>>
                                /\ (\A t \in Tokens : Lexeme(t) # "else") => k = j + 2)

\* a class is compiled where an if with no code between its two labels stands
\* in the else block of an if
C24_Witness ==
    /\ status = "done"
    /\ \E j \in Lines :
          /\ j + 1 <= Len(output)
          /\ output[j] = <<"label", "A.fIf0">>
          /\ output[j + 1] = <<"push", "constant", "1">>
    /\ \E k \in Lines :
          /\ k + 2 <= Len(output)
          /\ output[k] = <<"label", "A.fIf2">>
          /\ output[k + 1] = <<"label", "A.fIf3">>
          /\ output[k + 2] = <<"label", "A.fIf1">>

\* the label is a label of a while statement of the subroutine that starts at line f
IsWhileLabel(f, label) ==
    \E n \in 0..Len(output) : label = output[f][2] \o "While" \o str(n)

\* the while statements being compiled, by their place in the stack
OpenWhiles ==
    {d \in 1..Len(stack) : stack[d].fn = "compile_while_statement" /\ stack[d].pc # "while"}

\* C25: a while statement writes label L1 at its while; at the ")", after the
\* code of its condition, not and if-goto L2; at the "}" of its body goto L1
\* and label L2; and nothing at its "(" and "{"; L1 and L2 differ, stay the
\* labels of the statement and are the labels of no other while statement
\* being compiled.  In a compiled class the label that starts a while
\* statement is written once in its subroutine and is followed by a not, the
\* if-goto to a different label, a goto to the first and the second label
C25_While ==
    /\ [][/\ (compile_while_statement_while /\ status' = "running") =>
                /\ output' = Append(output, <<"label", stack'[Len(stack')].l1>>)
                /\ stack'[Len(stack')].l1 # stack'[Len(stack')].l2
                /\ \A d \in OpenWhiles :
                      {stack[d].l1, stack[d].l2}
                          \cap {stack'[Len(stack')].l1, stack'[Len(stack')].l2} = {}
          /\ compile_while_statement_lparen => output' = output
          /\ (compile_while_statement_rparen /\ status' = "running") =>
                output' = output \o << <<"not">>, <<"if-goto", Top.l2>> >>
          /\ compile_while_statement_lbrace => output' = output
          /\ (compile_while_statement_rbrace /\ status' = "running") =>
                output' = output \o << <<"goto", Top.l1>>, <<"label", Top.l2>> >>
          /\ status = "running" => LabelsKept("compile_while_statement")]_vars
    /\ [](status = "done" =>
            \A i \in Lines :
                (output[i][1] = "label" /\ IsWhileLabel(SubroutineOf(i), output[i][2])
                    /\ (i = 1 \/ output[i - 1][1] # "goto")) =>
                    /\ LinesOf(SubroutineOf(i), "label", output[i][2]) = {i}
                    /\ \E c \in (i + 2)..(Len(output) - 2) :
                          /\ output[c - 1] = <<"not">>
                          /\ output[c][1] = "if-goto"
                          /\ output[c][2] # output[i][2]
                          /\ \E j \in (c + 1)..(Len(output) - 1) :
                                /\ output[j] = <<"goto", output[i][2]>>
                                /\ output[j + 1] = <<"label", output[c][2]>>)

\* a class is compiled where a while statement stands in the body of another
C25_Witness ==
    /\ status = "done"
    /\ \E i \in Lines :
          /\ i + 13 <= Len(output)
          /\ SubSeq(output, i, i + 13)
              = << <<"label", "A.fWhile0">>, <<"push", "constant", "1">>, <<"neg">>,
                   <<"not">>, <<"if-goto", "A.fWhile1">>,
                   <<"label", "A.fWhile2">>, <<"push", "constant", "1">>, <<"neg">>,
                   <<"not">>, <<"if-goto", "A.fWhile3">>,
                   <<"goto", "A.fWhile2">>, <<"label", "A.fWhile3">>,
                   <<"goto", "A.fWhile0">>, <<"label", "A.fWhile1">> >>

\* the lines that discard a value, and the do keywords of the source
Discards == {i \in Lines : output[i] = <<"pop", "temp", "0">>}

DoTokens == {t \in Tokens : Lexeme(t) = "do" /\ TokenType(t) = KEYWORD_TAG}

\* C26: a do statement writes nothing at its do and, at its ";", pop temp 0
\* right after the call command of its call; no other step writes pop temp 0,
\* so the call of a term is not followed by it; a compiled class has one pop
\* temp 0 for each do of its source
C26_Do ==
    /\ [][/\ compile_do_statement_do => output' = output
          /\ (compile_do_statement_semicolon /\ status' = "running") =>
                /\ output # <<>> /\ output[Len(output)][1] = "call"
                /\ output' = Append(output, <<"pop", "temp", "0">>)
          /\ (\E i \in (Len(output) + 1)..Len(output') : output'[i] = <<"pop", "temp", "0">>)
                => compile_do_statement_semicolon]_vars
    /\ [](status = "done" => Cardinality(Discards) = Cardinality(DoTokens))

\* a class is compiled where the call of a do statement has a call as its argument
C26_Witness ==
    /\ status = "done"
    /\ \E i \in Lines :
          /\ i + 2 <= Len(output)
          /\ output[i][1] = "call" /\ output[i][2] = "B.h"
          /\ output[i + 1][1] = "call" /\ output[i + 1][2] = "A.g"
          /\ output[i + 2] = <<"pop", "temp", "0">>

\* the four lines that read the element of the array named name
ArrayReadOf(name) ==
    <<PushOf(Resolved(name)), <<"add">>, <<"pop", "pointer", "1">>, <<"push", "that", "0">> >>

\* the array read "a [ t ]" of a simple term ends at the token at c
FlatArrayRead(c) ==
    /\ c > 3
    /\ TokenType(c - 3) = IDENTIFIER_TAG
    /\ Lexeme(c - 2) = "["
    /\ SimpleTerm(c - 1)
    /\ Lexeme(c) = "]"

\* the lines of out from the n-th last on
LastLines(out, n) == SubSeq(out, Len(out) - n + 1, Len(out))

\* C27: an array read writes nothing at its name and "[" and, at its "]",
\* after the code of the index, the push of the array, add, pop pointer 1 and
\* push that 0; the code of "a [ t ]" with t simple is these lines after the
\* push of t, and the code of "a [ b [ t ] ]" is the code of "b [ t ]"
\* followed by the four lines of a
C27_ArrayRead ==
    [][/\ compile_term_array => output' = output
       /\ (compile_term_rbracket /\ status' = "running") =>
              /\ output' = output \o ArrayReadOf(Top.target_var)
              /\ FlatArrayRead(CurrentIndex) =>
                    /\ Len(output') >= 5
                    /\ LastLines(output', 5)
                        = <<SimpleCode(CurrentIndex - 1)>>
                            \o ArrayReadOf(Lexeme(CurrentIndex - 3))
              /\ (CurrentIndex > 6 /\ FlatArrayRead(CurrentIndex - 1)
                    /\ Lexeme(CurrentIndex - 5) = "["
                    /\ TokenType(CurrentIndex - 6) = IDENTIFIER_TAG) =>
                    /\ Len(output') >= 9
                    /\ LastLines(output', 9)
                        = <<SimpleCode(CurrentIndex - 2)>>
                            \o ArrayReadOf(Lexeme(CurrentIndex - 4))
                            \o ArrayReadOf(Lexeme(CurrentIndex - 6))]_vars

\* "a [ a [ 1 ] ]" is compiled, a the second local
C27_Witness ==
    /\ Len(output) >= 9
    /\ LastLines(output, 9)
        = << <<"push", "constant", "1">>,
             <<"push", "local", "1">>, <<"add">>, <<"pop", "pointer", "1">>,
             <<"push", "that", "0">>,
             <<"push", "local", "1">>, <<"add">>, <<"pop", "pointer", "1">>,
             <<"push", "that", "0">> >>

(***************************************************************************)
(* The claim about the start of a subroutine, under TableSpec              *)
(***************************************************************************)
\* C28: new_subroutine leaves the class table as it was, rows and counters,
\* and leaves a subroutine table with no rows and its counters at 0, so that
\* the first arg and the first local added after it are numbered 0
C28_NewSubroutine ==
    [][/\ SymbolTable_new_subroutine =>
              /\ symbol_table'.class_table = symbol_table.class_table
              /\ symbol_table'.subroutine_table.table = <<>>
              /\ symbol_table'.subroutine_table.next_arg_index = 0
              /\ symbol_table'.subroutine_table.next_var_index = 0
       /\ \A name \in Names, kind \in {ARG_KIND, LOCAL_KIND} :
              (/\ SymbolTable_define(name, "int", kind, FALSE)
               /\ status = "table_new"
               /\ status' = "table") =>
                  /\ Len(symbol_table'.subroutine_table.table) = 1
                  /\ symbol_table'.subroutine_table.table[1].name = name
                  /\ symbol_table'.subroutine_table.table[1].identifier_number = <<0>>]_vars

\* a subroutine is started in a class of a static variable and a field
C28_Witness ==
    /\ status = "table_new"
    /\ symbol_table.subroutine_table = SingleTable
    /\ Len(symbol_table.class_table.table) = 2
    /\ symbol_table.class_table.next_static_index = 1
    /\ symbol_table.class_table.next_field_index = 1

(***************************************************************************)
(* The claim about a failed advance, under LexSpec                         *)
(***************************************************************************)
\* what the methods of the lexer return: the current token, its category and
\* its display form, the number of the token the cursor is at, and the getters
Observable(tk) ==
    <<tk.current_token, tk.current_type, tk.current_xml,
      IF tk.token_pointer = <<>> THEN 0 ELSE tk.token_pointer[1] + 1,
      tk.input_string, tk.string_literals, tk.padded_string, tk.tokens,
      tk.token_type_list>>

Written == {i \in Lines' : i > Len(output)}

\* an array assignment is between its pop temp 1 and its push temp 1
AddressParked ==
    \E d \in 1..Len(stack) :
        /\ stack[d].fn = "compile_let_statement"
        /\ stack[d].is_array
        /\ stack[d].pc \in {"eq", "semicolon"}

Parks == {i \in Lines : output[i] = <<"pop", "temp", "1">>}

Unparks == {i \in Lines : output[i] = <<"push", "temp", "1">>}

\* C30: pop temp 1 is written only at the "]" of an array assignment and pop
\* temp 0 only at the ";" of a do statement, and no other pop into temp is
\* written; from the pop temp 1 of an array assignment to its push temp 1 no
\* step writes a pop into temp 1; in the output each push temp 1 follows a pop
\* temp 1 with no other line of temp 1 between them, and the next pop temp 1
\* comes after it
C30_Temp ==
    /\ [][/\ status # "start" => SubSeq(output', 1, Len(output)) = output
          /\ \A i \in Written :
                (output'[i][1] = "pop" /\ output'[i][2] = "temp") =>
                    \/ output'[i][3] = "1" /\ compile_let_statement_rbracket
                    \/ output'[i][3] = "0" /\ compile_do_statement_semicolon
          /\ AddressParked =>
                \A i \in Written : output'[i] # <<"pop", "temp", "1">>]_vars
    /\ [](/\ \A j \in Unparks : \E i \in Parks :
                /\ i < j
                /\ \A k \in (i + 1)..(j - 1) : k \notin Parks \cup Unparks
          /\ \A i \in Parks : \A k \in Parks :
                i < k => \E j \in Unparks : i < j /\ j < k)

\* an array assignment is compiled with an array read, a string constant and a
\* call in a call between its pop temp 1 and its push temp 1
C30_Witness ==
    \E i \in Parks : \E j \in Unparks :
        /\ i < j
        /\ \A k \in (i + 1)..(j - 1) : k \notin Parks \cup Unparks
        /\ \E k \in (i + 1)..(j - 1) : output[k] = <<"push", "that", "0">>
        /\ \E k \in (i + 1)..(j - 1) : output[k][1] = "call" /\ output[k][2] = "String.new"
        /\ \E k \in (i + 1)..(j - 1) : output[k][1] = "call" /\ output[k][2] = "A.g"
        /\ \E k \in (i + 1)..(j - 1) : output[k][1] = "call" /\ output[k][2] = "B.h"

====
